---- MODULE Spec2Model ----
(***************************************************************************)
(* A model of k8s-secret-manifest: the paired index-list engine            *)
(* (internal/entrylist), the exclusive-lock wrapper (cmd/filelock_unix.go) *)
(* and the command handlers that read, change and write Secret manifests.  *)
(*                                                                         *)
(* Strings are sequences of one-character strings, so that splitting,      *)
(* trimming and joining are computed the way the Go code computes them.    *)
(***************************************************************************)
EXTENDS Integers, Sequences, FiniteSets, TLC

\* ------------------------------------------------------------------------
\* Bounds of the model
\* ------------------------------------------------------------------------

\* Concurrent invocations of the tool.
NProcs == 3

\* Invocations run one after another.
MaxInvocations == 2

\* Longest token list handed to Parse.
MaxTokens == 2

\* Longest entry list Add / Insert may build.
MaxEntries == 3

\* ------------------------------------------------------------------------
\* Strings (package strings of the Go standard library)
\* ------------------------------------------------------------------------

\* The characters unicode.IsSpace accepts that the model uses.
Whitespace == {" ", "\t", "\n", "\r", "\f"}

RECURSIVE TrimLeft(_)
TrimLeft(s) ==
    IF s # <<>> /\ Head(s) \in Whitespace THEN TrimLeft(Tail(s)) ELSE s

RECURSIVE TrimRight(_)
TrimRight(s) ==
    IF s # <<>> /\ s[Len(s)] \in Whitespace
    THEN TrimRight(SubSeq(s, 1, Len(s) - 1))
    ELSE s

\* strings.TrimSpace
TrimSpace(s) == TrimRight(TrimLeft(s))

\* strings.HasPrefix(s[i-1:], sep), 1-based i
HasPrefixAt(s, i, sep) ==
    /\ i + Len(sep) - 1 <= Len(s)
    /\ SubSeq(s, i, i + Len(sep) - 1) = sep

\* strings.Index, 1-based; 0 when sep does not occur in s
Index(s, sep) ==
    LET hits == {i \in 1..Len(s) : HasPrefixAt(s, i, sep)}
    IN  IF hits = {} THEN 0 ELSE CHOOSE i \in hits : \A j \in hits : i <= j

\* strings.Contains
Contains(s, sep) == sep = <<>> \/ Index(s, sep) # 0

\* strings.Split: with an empty separator the string is cut into its
\* characters; otherwise it is cut at every non-overlapping occurrence of sep,
\* found left to right, and a string without sep is returned whole.
RECURSIVE Split(_, _)
Split(s, sep) ==
    IF sep = <<>>
    THEN [i \in 1..Len(s) |-> <<s[i]>>]
    ELSE LET i == Index(s, sep)
         IN  IF i = 0
             THEN <<s>>
             ELSE <<SubSeq(s, 1, i - 1)>>
                    \o Split(SubSeq(s, i + Len(sep), Len(s)), sep)

\* strings.Join
RECURSIVE Join(_, _)
Join(parts, sep) ==
    IF parts = <<>> THEN <<>>
    ELSE IF Len(parts) = 1 THEN parts[1]
    ELSE parts[1] \o sep \o Join(Tail(parts), sep)

\* ------------------------------------------------------------------------
\* internal/entrylist
\* ------------------------------------------------------------------------

\* type Entry struct { Key, Value string }
Entry(k, v) == [Key |-> k, Value |-> v]

\* The result of a function returning ([]Entry, error).
Ok(es) == [ok |-> TRUE, err |-> "", entries |-> es, a |-> 0, b |-> 0]
Fail(e, x, y) == [ok |-> FALSE, err |-> e, entries |-> <<>>, a |-> x, b |-> y]

RECURSIVE DropEmptyTrimmed(_)
DropEmptyTrimmed(parts) ==
    IF parts = <<>> THEN <<>>
    ELSE LET trimmed == TrimSpace(Head(parts))
         IN  IF trimmed # <<>>
             THEN <<trimmed>> \o DropEmptyTrimmed(Tail(parts))
             ELSE DropEmptyTrimmed(Tail(parts))

\* A splitTrimmed that trims the tokens but keeps the empty ones.
splitTrimmed_keepEmpty(s, sep) ==
    IF TrimSpace(s) = <<>> THEN <<>>
    ELSE [i \in 1..Len(Split(s, sep)) |-> TrimSpace(Split(s, sep)[i])]

\* splitTrimmed splits s by sep, trims whitespace, and drops empty strings.
splitTrimmed(s, sep) ==
    IF TrimSpace(s) = <<>> THEN <<>> ELSE DropEmptyTrimmed(Split(s, sep))

\* Parse: the two lists are split and filtered independently, compared by
\* length, then zipped; an empty key at index i is an error (0-based i).
Parse(keysVal, valuesVal, sep) ==
    LET keys   == splitTrimmed(keysVal, sep)
        values == splitTrimmed(valuesVal, sep)
        empty  == {i \in 1..Len(keys) : keys[i] = <<>>}
    IN  IF Len(keys) # Len(values)
        THEN Fail("mismatch", Len(keys), Len(values))
        ELSE IF empty # {}
        THEN Fail("emptykey", (CHOOSE i \in empty : \A j \in empty : i <= j) - 1, 0)
        ELSE Ok([i \in 1..Len(keys) |-> Entry(keys[i], values[i])])

\* Keys returns the ordered list of entry keys.
Keys(entries) == [i \in 1..Len(entries) |-> entries[i].Key]

Values(entries) == [i \in 1..Len(entries) |-> entries[i].Value]

\* A Serialize that joins with "," whatever the separator is.
Serialize_comma(entries, sep) ==
    <<Join(Keys(entries), <<",">>), Join(Values(entries), <<",">>)>>

\* Serialize joins the keys and the values with sep.
Serialize(entries, sep) == <<Join(Keys(entries), sep), Join(Values(entries), sep)>>

HasKey(entries, key) == \E i \in 1..Len(entries) : entries[i].Key = key

\* Add appends a new Entry; an empty or an existing key is an error.
Add(entries, key, value) ==
    IF key = <<>> THEN Fail("emptykey", 0, 0)
    ELSE IF HasKey(entries, key) THEN Fail("exists", 0, 0)
    ELSE Ok(Append(entries, Entry(key, value)))

RECURSIVE DropKey(_, _)
DropKey(entries, key) ==
    IF entries = <<>> THEN <<>>
    ELSE IF Head(entries).Key = key THEN DropKey(Tail(entries), key)
    ELSE <<Head(entries)>> \o DropKey(Tail(entries), key)

\* Remove copies every entry whose key differs from key; not found is an error.
Remove(entries, key) ==
    IF ~HasKey(entries, key) THEN Fail("notfound", 0, 0)
    ELSE Ok(DropKey(entries, key))

\* A RemoveByValue that takes out the last entry whose value matches.
RemoveByValue_last(entries, value) ==
    LET hits == {i \in 1..Len(entries) : entries[i].Value = value}
    IN  IF hits = {} THEN Fail("notfound", 0, 0)
        ELSE LET last == CHOOSE i \in hits : \A j \in hits : i >= j
             IN  Ok(SubSeq(entries, 1, last - 1)
                      \o SubSeq(entries, last + 1, Len(entries)))

RECURSIVE DropValue(_, _)
DropValue(entries, value) ==
    IF entries = <<>> THEN <<>>
    ELSE IF Head(entries).Value = value THEN DropValue(Tail(entries), value)
    ELSE <<Head(entries)>> \o DropValue(Tail(entries), value)

\* A RemoveByValue without the "!found &&" test: every match is skipped.
RemoveByValue_all(entries, value) ==
    IF \A i \in 1..Len(entries) : entries[i].Value # value
    THEN Fail("notfound", 0, 0)
    ELSE Ok(DropValue(entries, value))

\* RemoveByValue skips the first entry whose value matches and copies the rest.
RemoveByValue(entries, value) ==
    LET hits == {i \in 1..Len(entries) : entries[i].Value = value}
    IN  IF hits = {} THEN Fail("notfound", 0, 0)
        ELSE LET first == CHOOSE i \in hits : \A j \in hits : i <= j
             IN  Ok(SubSeq(entries, 1, first - 1)
                      \o SubSeq(entries, first + 1, Len(entries)))

\* An Insert whose range test is "idx >= len(entries)".
Insert_noAppend(entries, idx, key, value) ==
    IF key = <<>> THEN Fail("emptykey", 0, 0)
    ELSE IF idx < 0 \/ idx >= Len(entries) THEN Fail("range", idx, Len(entries))
    ELSE IF HasKey(entries, key) THEN Fail("exists", 0, 0)
    ELSE Ok(SubSeq(entries, 1, idx) \o <<Entry(key, value)>>
              \o SubSeq(entries, idx + 1, Len(entries)))

\* Insert puts a new Entry at 0-based index idx; idx = len(entries) appends.
Insert(entries, idx, key, value) ==
    IF key = <<>> THEN Fail("emptykey", 0, 0)
    ELSE IF idx < 0 \/ idx > Len(entries) THEN Fail("range", idx, Len(entries))
    ELSE IF HasKey(entries, key) THEN Fail("exists", 0, 0)
    ELSE Ok(SubSeq(entries, 1, idx) \o <<Entry(key, value)>>
              \o SubSeq(entries, idx + 1, Len(entries)))

\* ------------------------------------------------------------------------
\* internal/manifest and internal/validate
\* ------------------------------------------------------------------------

\* NewSecret: apiVersion v1, kind Secret, type Opaque, an empty data map.
\* Maps are functions from the set of their keys.
EmptyMap == [k \in {} |-> <<>>]

NewSecret(name, namespace) ==
    [name |-> name, namespace |-> namespace, type |-> "Opaque",
     data |-> EmptyMap, labels |-> EmptyMap, annotations |-> EmptyMap,
     immutable |-> FALSE]

\* m[k] = v of a Go map
MapSet(m, k, v) == [x \in DOMAIN m \cup {k} |-> IF x = k THEN v ELSE m[x]]

\* A delete that clears the map.
MapDelete_all(m, k) == [x \in {} |-> m[x]]

\* delete(m, k) of a Go map
MapDelete(m, k) == [x \in DOMAIN m \ {k} |-> m[x]]

\* string(m[k]): the zero value for an absent key
MapGet(m, k) == IF k \in DOMAIN m THEN m[k] ELSE <<>>

\* SetPlainValue stores a plain-text value under key.
SetPlainValue(s, key, plaintext) == [s EXCEPT !.data = MapSet(s.data, key, plaintext)]

\* The characters of dataKeyRe, ^[-._a-zA-Z0-9]+$, that the model uses.
DataKeyChars == {"A", "B", "U", "P", "-", ".", "_"}

\* validate.ValidateDataKey: the key is non-empty and matches dataKeyRe.
ValidateDataKey(key) ==
    key # <<>> /\ \A i \in 1..Len(key) : key[i] \in DataKeyChars

\* ------------------------------------------------------------------------
\* The file system
\* ------------------------------------------------------------------------

\* A path is a string whose characters are "/" and whole segments (".." is
\* one character); the empty path is "" (standard output).
Segments(path) == Split(path, <<"/">>)

\* Whether the cleaned path starts with "..": walking the segments, a ".."
\* met at depth 0 leaves the current directory.
RECURSIVE Climbs(_, _)
Climbs(segs, depth) ==
    IF segs = <<>> THEN FALSE
    ELSE IF Head(segs) = <<"..">>
         THEN depth = 0 \/ Climbs(Tail(segs), depth - 1)
         ELSE Climbs(Tail(segs), depth + 1)

Escapes(path) == Climbs(Segments(path), 0)

\* safePath(flag, path) rejects a relative path that climbs above the current
\* directory with the error "escapes current directory".
safePath(path) ==
    IF Escapes(path) THEN [ok |-> FALSE, err |-> "escapes"]
    ELSE [ok |-> TRUE, err |-> ""]

Stdout     == <<>>
SecretFile == <<"s">>
OtherFile  == <<"t">>
EvilFile   == <<"..", "/", "e">>
CertFile   == <<"c">>
NoSuchFile == <<"g">>
EnvFile    == <<"v">>

Paths == {SecretFile, OtherFile, EvilFile, CertFile, NoSuchFile, EnvFile}

\* What a path holds: nothing, a Secret manifest, or plain text.
NoFile       == [kind |-> "none"]
ManifestOf(s) == [kind |-> "secret", m |-> s]
TextOf(t)     == [kind |-> "text", text |-> t]

Exists(fs, path) == path \in DOMAIN fs /\ fs[path].kind # "none"

\* os.ReadFile: the bytes of a file, as the value --set-file stores. The YAML
\* text of a manifest is one opaque token.
FileBytes(f) == IF f.kind = "text" THEN f.text ELSE <<"<yaml>">>

\* ------------------------------------------------------------------------
\* cmd: helpers of the command handlers
\* ------------------------------------------------------------------------

\* The result of one stage of a handler: the manifest as the stage left it
\* (changed in place up to the failing step), and the paths it read.
Done(s, rd) == [ok |-> TRUE, err |-> "", s |-> s, read |-> rd]
Err(e, s, rd) == [ok |-> FALSE, err |-> e, s |-> s, read |-> rd]

\* splitKeyValue parses "key=value" at the first "=".
splitKeyValue(kv) ==
    LET idx == Index(kv, <<"=">>)
    IN  IF idx = 0
        THEN [ok |-> FALSE, k |-> <<>>, v |-> <<>>]
        ELSE [ok |-> TRUE, k |-> SubSeq(kv, 1, idx - 1),
              v |-> SubSeq(kv, idx + 1, Len(kv))]

\* The --set loop of runUpdate and runGenerate.
RECURSIVE applySets(_, _)
applySets(s, sets) ==
    IF sets = <<>> THEN Done(s, {})
    ELSE LET kv == splitKeyValue(Head(sets))
         IN  IF ~kv.ok THEN Err("format", s, {})
             ELSE IF ~ValidateDataKey(kv.k) THEN Err("invalid characters", s, {})
             ELSE applySets(SetPlainValue(s, kv.k, kv.v), Tail(sets))

\* applySetFiles reads key=filepath pairs and stores the file contents.
RECURSIVE applySetFiles(_, _, _, _)
applySetFiles(s, setFiles, fs, rd) ==
    IF setFiles = <<>> THEN Done(s, rd)
    ELSE LET kf == splitKeyValue(Head(setFiles))
             path == kf.v
         IN  IF ~kf.ok THEN Err("format", s, rd)
             ELSE IF ~ValidateDataKey(kf.k) THEN Err("invalid characters", s, rd)
             ELSE IF ~safePath(path).ok THEN Err("escapes", s, rd)
             ELSE IF ~Exists(fs, path) THEN Err("read file", s, rd \cup {path})
             ELSE applySetFiles(SetPlainValue(s, kf.k, FileBytes(fs[path])),
                                Tail(setFiles), fs, rd \cup {path})

\* The --delete-key loop of runUpdate.
RECURSIVE applyDeleteKeys(_, _)
applyDeleteKeys(s, deleteKeys) ==
    IF deleteKeys = <<>> THEN Done(s, {})
    ELSE IF Head(deleteKeys) \notin DOMAIN s.data THEN Err("not found", s, {})
    ELSE applyDeleteKeys([s EXCEPT !.data = MapDelete(s.data, Head(deleteKeys))],
                         Tail(deleteKeys))

\* The --label loop of runUpdate: s.Labels[k] = v.
RECURSIVE applyLabels(_, _)
applyLabels(s, labels) ==
    IF labels = <<>> THEN Done(s, {})
    ELSE LET kv == splitKeyValue(Head(labels))
         IN  IF ~kv.ok THEN Err("format", s, {})
             ELSE applyLabels([s EXCEPT !.labels = MapSet(s.labels, kv.k, kv.v)],
                              Tail(labels))

\* The --annotation loop of runUpdate: s.Annotations[k] = v.
RECURSIVE applyAnnotations(_, _)
applyAnnotations(s, annotations) ==
    IF annotations = <<>> THEN Done(s, {})
    ELSE LET kv == splitKeyValue(Head(annotations))
         IN  IF ~kv.ok THEN Err("format", s, {})
             ELSE applyAnnotations(
                      [s EXCEPT !.annotations = MapSet(s.annotations, kv.k, kv.v)],
                      Tail(annotations))

\* loadEntries: a secret with both list keys missing or empty is an empty list.
loadEntries(s, entriesKey, entriesVal, sep) ==
    LET keysPlain == MapGet(s.data, entriesKey)
        valsPlain == MapGet(s.data, entriesVal)
    IN  IF keysPlain = <<>> /\ valsPlain = <<>>
        THEN Ok(<<>>)
        ELSE Parse(keysPlain, valsPlain, sep)

\* storeEntries serialises entries and writes them back into the secret.
storeEntries(s, entriesKey, entriesVal, sep, es) ==
    LET kv == Serialize(es, sep)
    IN  SetPlainValue(SetPlainValue(s, entriesKey, kv[1]), entriesVal, kv[2])

\* unquote strips a matching pair of surrounding single or double quotes.
unquote(s) ==
    IF /\ Len(s) >= 2
       /\ \/ s[1] = "\"" /\ s[Len(s)] = "\""
          \/ s[1] = "'" /\ s[Len(s)] = "'"
    THEN SubSeq(s, 2, Len(s) - 1)
    ELSE s

ExportPrefix == <<"e", "x", "p", "o", "r", "t", " ">>

\* strings.TrimPrefix
TrimPrefix(s, prefix) ==
    IF HasPrefixAt(s, 1, prefix) THEN SubSeq(s, Len(prefix) + 1, Len(s)) ELSE s

\* parseEnvFile, line by line: blank lines and # comments are skipped, an
\* "export " prefix is stripped, the key is trimmed and the value unquoted.
RECURSIVE parseEnvLines(_, _)
parseEnvLines(lines, result) ==
    IF lines = <<>> THEN [ok |-> TRUE, pairs |-> result]
    ELSE LET trimmed == TrimSpace(Head(lines))
             line == TrimPrefix(trimmed, ExportPrefix)
             idx  == Index(line, <<"=">>)
             key  == TrimSpace(SubSeq(line, 1, idx - 1))
             val  == unquote(SubSeq(line, idx + 1, Len(line)))
         IN  IF trimmed = <<>> \/ Head(trimmed) = "#"
             THEN parseEnvLines(Tail(lines), result)
             ELSE IF idx = 0 THEN [ok |-> FALSE, pairs |-> result]
             ELSE IF key = <<>> THEN [ok |-> FALSE, pairs |-> result]
             ELSE parseEnvLines(Tail(lines), MapSet(result, key, val))

parseEnvFile(lines) == parseEnvLines(lines, EmptyMap)

\* parseKeyValuePairs parses "key=value" strings into a map; the last wins.
RECURSIVE parseKeyValuePairs(_, _)
parseKeyValuePairs(pairs, m) ==
    IF pairs = <<>> THEN [ok |-> TRUE, m |-> m]
    ELSE LET kv == splitKeyValue(Head(pairs))
         IN  IF ~kv.ok THEN [ok |-> FALSE, m |-> m]
             ELSE parseKeyValuePairs(Tail(pairs), MapSet(m, kv.k, kv.v))

\* parseEntryFlags parses --entry "key:value" flags at the first ":"; an
\* empty or a repeated key is an error.
RECURSIVE parseEntryFlags(_, _)
parseEntryFlags(flags, es) ==
    IF flags = <<>> THEN Ok(es)
    ELSE LET f   == Head(flags)
             idx == Index(f, <<":">>)
             key == SubSeq(f, 1, idx - 1)
             value == SubSeq(f, idx + 1, Len(f))
         IN  IF idx = 0 THEN Fail("format", 0, 0)
             ELSE IF key = <<>> THEN Fail("emptykey", 0, 0)
             ELSE IF HasKey(es, key) THEN Fail("duplicate", 0, 0)
             ELSE parseEntryFlags(Tail(flags), Append(es, Entry(key, value)))

\* The characters of each charset of rotate that the model draws from.
Charset(name) ==
    CASE name = "alphanumeric" -> {"a", "Z"}
      [] name = "hex"          -> {"0", "f"}
      [] name = "base64url"    -> {"a", "_"}
      [] OTHER                 -> {}

\* resolveCharset: an unknown name is an error.
resolveCharset(name) == name \in {"alphanumeric", "hex", "base64url"}

\* The longest value of which every possible outcome is drawn.
MaxDrawn == 2

\* A randomString that returns one character less than asked.
RandomStrings_short(length, charset) ==
    IF length <= 0 THEN {}
    ELSE IF length <= MaxDrawn THEN [1..(length - 1) -> charset]
    ELSE {[i \in 1..(length - 1) |-> c] : c \in charset}

\* randomString(length, charset): every string of that length over the
\* charset is a possible outcome (of the longer ones, those of one repeated
\* character are drawn); a length <= 0 is an error.
RandomStrings(length, charset) ==
    IF length <= 0 THEN {}
    ELSE IF length <= MaxDrawn THEN [1..length -> charset]
    ELSE {[i \in 1..length |-> c] : c \in charset}

\* ------------------------------------------------------------------------
\* cmd: the command lines
\* ------------------------------------------------------------------------

\* The flags of one invocation; every flag at its default.
BaseCmd ==
    [name |-> "", input |-> <<>>, output |-> <<>>,
     sets |-> <<>>, setFiles |-> <<>>, deleteKeys |-> <<>>,
     labels |-> <<>>, annotations |-> <<>>,
     entriesKey |-> <<>>, entriesVal |-> <<>>, entryFlags |-> <<>>,
     key |-> <<>>, value |-> <<>>, idx |-> -1, sep |-> <<";">>,
     rkeys |-> <<>>, length |-> 1, charset |-> "alphanumeric",
     editor |-> "ok", edited |-> <<>>,
     newName |-> "", type |-> "", immutable |-> FALSE,
     namespace |-> "default",
     tlsCert |-> <<>>, tlsKey |-> <<>>, docker |-> "none",
     envFile |-> <<>>]

\* Commands whose --output defaults to --input.
RMWCommands == {"update", "rotate", "add-entry", "remove-entry", "edit"}

\* The path the command writes: "if outputPath == "" { outputPath = inputPath }"
OutputPath(c) ==
    IF c.name \in RMWCommands /\ c.output = <<>> THEN c.input ELSE c.output

\* A handler that calls fn() without withExclusiveLock.
UsesLock_never(c) == FALSE

\* Whether the handler wraps its work in withExclusiveLock(outputPath, fn).
UsesLock(c) == c.name = "update"

\* Whether the handler loads the manifest of --input with manifest.FromFile.
ReadsInput(c) == c.name \in RMWCommands \cup {"copy", "export-env"}

\* What the handler checks before it touches any file: "" or the error.
Precheck(c) ==
    CASE c.name = "update" ->
            IF ~safePath(c.input).ok THEN "escapes" ELSE ""
      [] c.name = "edit" ->
            IF ~safePath(c.input).ok THEN "escapes"
            ELSE IF c.editor = "missing" THEN "editor not found"
            ELSE ""
      [] c.name = "rotate" ->
            IF ~resolveCharset(c.charset) THEN "unknown charset" ELSE ""
      [] c.name = "remove-entry" ->
            IF c.key = <<>> /\ c.value = <<>> THEN "one of --key or --value"
            ELSE IF c.key # <<>> /\ c.value # <<>> THEN "mutually exclusive"
            ELSE ""
      [] OTHER -> ""

\* ------------------------------------------------------------------------
\* cmd: what each handler does to the manifest in memory
\* ------------------------------------------------------------------------

\* A step's result with the paths read before it.
AndRead(r, rd) == [r EXCEPT !.read = @ \cup rd]

\* runUpdate step by step; each step takes the result r of the steps before
\* it and passes a failure on ("if err != nil { return err }").
updateSetFiles(c, fs, r) ==
    IF ~r.ok THEN r ELSE applySetFiles(r.s, c.setFiles, fs, r.read)

updateDeleteKeys(c, r) ==
    IF ~r.ok THEN r ELSE AndRead(applyDeleteKeys(r.s, c.deleteKeys), r.read)

updateLabels(c, r) ==
    IF ~r.ok THEN r ELSE AndRead(applyLabels(r.s, c.labels), r.read)

updateAnnotations(c, r) ==
    IF ~r.ok THEN r ELSE AndRead(applyAnnotations(r.s, c.annotations), r.read)

\* runUpdate, from the --set loop to the --annotation loop.
updateBody(c, s, fs) ==
    updateAnnotations(c,
        updateLabels(c,
            updateDeleteKeys(c,
                updateSetFiles(c, fs, applySets(s, c.sets)))))

\* The --key loop of runRotate; rnd holds the value drawn for each key.
RECURSIVE rotateKeys(_, _, _, _)
rotateKeys(s, keys, length, rnd) ==
    IF keys = <<>> THEN Done(s, {})
    ELSE IF Head(keys) \notin DOMAIN s.data THEN Err("not found", s, {})
    ELSE IF length <= 0 THEN Err("length must be positive", s, {})
    ELSE rotateKeys(SetPlainValue(s, Head(keys), Head(rnd)),
                    Tail(keys), length, Tail(rnd))

rotateBody(c, s, rnd) == rotateKeys(s, c.rkeys, c.length, rnd)

\* The end of runAddEntry and runRemoveEntry: the changed list is stored,
\* or the error of the list operation returned.
storeChanged(c, s, changed) ==
    IF ~changed.ok THEN Err(changed.err, s, {})
    ELSE Done(storeEntries(s, c.entriesKey, c.entriesVal, c.sep, changed.entries), {})

\* runAddEntry after loadEntries: Insert with --index, Add without.
addToLoaded(c, s, loaded) ==
    IF ~loaded.ok THEN Err(loaded.err, s, {})
    ELSE IF c.idx >= 0
    THEN storeChanged(c, s, Insert(loaded.entries, c.idx, c.key, c.value))
    ELSE storeChanged(c, s, Add(loaded.entries, c.key, c.value))

\* runAddEntry, from loadEntries to storeEntries.
addEntryBody(c, s) ==
    addToLoaded(c, s, loadEntries(s, c.entriesKey, c.entriesVal, c.sep))

\* runRemoveEntry after loadEntries: Remove with --key, RemoveByValue with --value.
removeFromLoaded(c, s, loaded) ==
    IF ~loaded.ok THEN Err(loaded.err, s, {})
    ELSE IF c.key # <<>>
    THEN storeChanged(c, s, Remove(loaded.entries, c.key))
    ELSE storeChanged(c, s, RemoveByValue(loaded.entries, c.value))

\* runRemoveEntry, from loadEntries to storeEntries.
removeEntryBody(c, s) ==
    removeFromLoaded(c, s, loadEntries(s, c.entriesKey, c.entriesVal, c.sep))

\* runEdit after parseEnvFile: the data map is emptied and rebuilt key by
\* key, each key validated before it is stored. Go ranges over the map in no
\* fixed order: visited are the keys met before the first invalid one.
applyEdited(s, edited, visited) ==
    IF ~edited.ok THEN Err("parse edited file", s, {})
    ELSE IF \E k \in DOMAIN edited.pairs : ~ValidateDataKey(k)
    THEN Err("invalid characters",
             [s EXCEPT !.data = [k \in {x \in DOMAIN edited.pairs :
                                           x \in visited /\ ValidateDataKey(x)}
                                    |-> edited.pairs[k]]], {})
    ELSE Done([s EXCEPT !.data = edited.pairs], {})

\* runEdit, from the editor to the re-encoding: c.edited is the temporary
\* file as the editor left it.
editBody(c, s, visited) ==
    IF c.editor = "fails" THEN Err("editor", s, {})
    ELSE applyEdited(s, parseEnvFile(c.edited), visited)

\* runCopy: the new name and the namespace of the global flag.
copyBody(c, s) == Done([s EXCEPT !.name = c.newName, !.namespace = c.namespace], {})

\* applyTLS reads the certificate and the key and stores them.
applyTLS(s, certPath, keyPath, explicitType, fs) ==
    IF ~safePath(certPath).ok \/ ~safePath(keyPath).ok THEN Err("escapes", s, {})
    ELSE IF ~Exists(fs, certPath) THEN Err("--tls-cert", s, {certPath})
    ELSE IF ~Exists(fs, keyPath) THEN Err("--tls-key", s, {certPath, keyPath})
    ELSE Done([s EXCEPT
                 !.type = IF explicitType = "" THEN "kubernetes.io/tls" ELSE @,
                 !.data = MapSet(MapSet(@, <<"tls.crt">>, FileBytes(fs[certPath])),
                                 <<"tls.key">>, FileBytes(fs[keyPath]))],
              {certPath, keyPath})

\* applyDockerRegistry stores the .dockerconfigjson blob (one opaque token).
applyDockerRegistry(s, explicitType) ==
    Done([s EXCEPT
            !.type = IF explicitType = "" THEN "kubernetes.io/dockerconfigjson" ELSE @,
            !.data = MapSet(@, <<".dockerconfigjson">>, <<"<json>">>)], {})

\* runGenerate step by step, each step passing a failure on.
\* NewSecret and the explicit --type.
genNew(c) ==
    [NewSecret(c.newName, c.namespace) EXCEPT !.type = IF c.type # "" THEN c.type ELSE @]

\* "if len(labels) > 0": lm is parseKeyValuePairs(labels).
genLabels(c, s, lm) ==
    IF c.labels = <<>> THEN Done(s, {})
    ELSE IF ~lm.ok THEN Err("format", s, {})
    ELSE Done([s EXCEPT !.labels = lm.m], {})

\* "if len(annotations) > 0": am is parseKeyValuePairs(annotations).
genAnnotations(c, r, am) ==
    IF ~r.ok \/ c.annotations = <<>> THEN r
    ELSE IF ~am.ok THEN Err("format", r.s, {})
    ELSE Done([r.s EXCEPT !.annotations = am.m], {})

genImmutable(c, r) ==
    IF ~r.ok THEN r ELSE Done([r.s EXCEPT !.immutable = c.immutable], {})

genSets(c, r) == IF ~r.ok THEN r ELSE applySets(r.s, c.sets)

genSetFiles(c, fs, r) ==
    IF ~r.ok THEN r ELSE applySetFiles(r.s, c.setFiles, fs, r.read)

genTLS(c, fs, r) ==
    IF ~r.ok \/ (c.tlsCert = <<>> /\ c.tlsKey = <<>>) THEN r
    ELSE IF c.tlsCert = <<>> \/ c.tlsKey = <<>>
    THEN Err("both must be provided", r.s, r.read)
    ELSE AndRead(applyTLS(r.s, c.tlsCert, c.tlsKey, c.type, fs), r.read)

genDocker(c, r) ==
    IF ~r.ok \/ c.docker = "none" THEN r
    ELSE IF c.docker = "partial" THEN Err("all are required", r.s, r.read)
    ELSE AndRead(applyDockerRegistry(r.s, c.type), r.read)

\* The paired index-list flags; es is parseEntryFlags(entryFlags).
genEntries(c, r, es) ==
    IF ~r.ok \/ (c.entriesKey = <<>> /\ c.entriesVal = <<>> /\ c.entryFlags = <<>>)
    THEN r
    ELSE IF c.entriesKey = <<>> \/ c.entriesVal = <<>>
    THEN Err("both required", r.s, r.read)
    ELSE IF ~ValidateDataKey(c.entriesKey) \/ ~ValidateDataKey(c.entriesVal)
    THEN Err("invalid characters", r.s, r.read)
    ELSE IF ~es.ok THEN Err(es.err, r.s, r.read)
    ELSE Done(storeEntries(r.s, c.entriesKey, c.entriesVal, c.sep, es.entries), r.read)

\* runGenerate, from NewSecret to the paired index-list.
generateBody(c, fs) ==
    genEntries(c,
        genDocker(c,
            genTLS(c, fs,
                genSetFiles(c, fs,
                    genSets(c,
                        genImmutable(c,
                            genAnnotations(c,
                                genLabels(c, genNew(c),
                                          parseKeyValuePairs(c.labels, EmptyMap)),
                                parseKeyValuePairs(c.annotations, EmptyMap))))))),
        parseEntryFlags(c.entryFlags, <<>>))

\* runFromEnv step by step. The pairs of the .env file are stored as they
\* are parsed; pe is parseEnvFile of the lines of the file.
fromEnvPairs(r, pe) ==
    IF ~r.ok THEN r
    ELSE Done([r.s EXCEPT !.data = [k \in DOMAIN @ \cup DOMAIN pe.pairs |->
                                      IF k \in DOMAIN pe.pairs THEN pe.pairs[k] ELSE @[k]]],
              r.read)

\* The --set loop of runFromEnv: splitKeyValue and SetPlainValue.
RECURSIVE fromEnvSets(_, _)
fromEnvSets(r, sets) ==
    IF ~r.ok \/ sets = <<>> THEN r
    ELSE IF ~splitKeyValue(Head(sets)).ok THEN Err("format", r.s, r.read)
    ELSE fromEnvSets(Done(SetPlainValue(r.s, splitKeyValue(Head(sets)).k,
                                        splitKeyValue(Head(sets)).v), r.read),
                     Tail(sets))

\* runFromEnv after parseEnvFile.
fromEnvParsed(c, pe) ==
    IF ~pe.ok THEN Err("parse env file", NewSecret("", ""), {c.envFile})
    ELSE fromEnvSets(
             fromEnvPairs(
                 AndRead(genImmutable(c,
                             genAnnotations(c,
                                 genLabels(c, genNew(c),
                                           parseKeyValuePairs(c.labels, EmptyMap)),
                                 parseKeyValuePairs(c.annotations, EmptyMap))),
                         {c.envFile}),
                 pe),
             c.sets)

\* runFromEnv: os.Open(envFile), a bufio.Scanner over its lines.
fromEnvBody(c, fs) ==
    IF ~Exists(fs, c.envFile) THEN Err("parse env file", NewSecret("", ""), {c.envFile})
    ELSE fromEnvParsed(c, parseEnvFile(Split(FileBytes(fs[c.envFile]), <<"\n">>)))

\* needsEnvQuoting: strings.ContainsAny(val, " \t\n\r\"'#$\\=;,")
needsEnvQuoting(val) ==
    \E i \in 1..Len(val) :
        val[i] \in {" ", "\t", "\n", "\r", "\"", "'", "#", "$", "\\", "=", ";", ","}

\* strings.ReplaceAll of "\\" by "\\\\" and then of "\"" by "\\\"".
RECURSIVE escaped(_)
escaped(val) ==
    IF val = <<>> THEN <<>>
    ELSE (IF Head(val) = "\\" THEN <<"\\", "\\">>
          ELSE IF Head(val) = "\"" THEN <<"\\", "\"">>
          ELSE <<Head(val)>>) \o escaped(Tail(val))

\* quoteEnvValue wraps the value in double quotes when it needs quoting.
quoteEnvValue(val) ==
    IF ~needsEnvQuoting(val) THEN val ELSE <<"\"">> \o escaped(val) \o <<"\"">>

\* The byte value of the characters that keys are made of.
ByteOf(c) ==
    CASE c = "-" -> 45 [] c = "." -> 46 [] c = "A" -> 65 [] c = "B" -> 66
      [] c = "P" -> 80 [] c = "U" -> 85 [] c = "_" -> 95 [] OTHER -> 0

\* a < b for Go strings: byte by byte, a proper prefix first.
RECURSIVE StringLess(_, _)
StringLess(a, b) ==
    IF b = <<>> THEN FALSE
    ELSE IF a = <<>> THEN TRUE
    ELSE IF Head(a) = Head(b) THEN StringLess(Tail(a), Tail(b))
    ELSE ByteOf(Head(a)) < ByteOf(Head(b))

\* sort.Strings(keys)
RECURSIVE SortStrings(_)
SortStrings(S) ==
    IF S = {} THEN <<>>
    ELSE <<CHOOSE x \in S : \A y \in S : ~StringLess(y, x)>>
         \o SortStrings(S \ {CHOOSE x \in S : \A y \in S : ~StringLess(y, x)})

\* The text runExportEnv builds: one "KEY=value\n" per key of keys.
RECURSIVE envText(_, _)
envText(data, keys) ==
    IF keys = <<>> THEN <<>>
    ELSE Head(keys) \o <<"=">> \o quoteEnvValue(data[Head(keys)]) \o <<"\n">>
         \o envText(data, Tail(keys))

\* runExportEnv keeps the manifest; what it writes is envText.
exportEnvBody(s) == Done(s, {})

\* What the handler writes to its output path.
Written(c, s) ==
    IF c.name = "export-env" THEN TextOf(envText(s.data, SortStrings(DOMAIN s.data)))
    ELSE ManifestOf(s)

\* The handler of command c applied to the loaded manifest s.
Body(c, s, fs, rnd) ==
    CASE c.name = "update"       -> updateBody(c, s, fs)
      [] c.name = "rotate"       -> rotateBody(c, s, rnd)
      [] c.name = "add-entry"    -> addEntryBody(c, s)
      [] c.name = "remove-entry" -> removeEntryBody(c, s)
      [] c.name = "edit"         -> editBody(c, s, rnd)
      [] c.name = "copy"         -> copyBody(c, s)
      [] c.name = "generate"     -> generateBody(c, fs)
      [] c.name = "from-env"     -> fromEnvBody(c, fs)
      [] c.name = "export-env"   -> exportEnvBody(s)

\* What a run leaves to chance: the values crypto/rand draws for the keys of
\* a rotate, and the keys an edit meets first when it ranges over the map.
RandomDraws(c) ==
    IF c.name = "rotate" /\ c.length > 0
    THEN [1..Len(c.rkeys) -> RandomStrings(c.length, Charset(c.charset))]
    ELSE IF c.name = "edit"
    THEN SUBSET DOMAIN parseEnvFile(c.edited).pairs
    ELSE {<<>>}

\* A handler that goes on to writeSecretTo whatever its steps returned.
BodyOutcome_always(r) == "write"

\* "if err != nil { return err }": a handler writes only when every step
\* before writeSecretTo succeeded.
BodyOutcome(r) == IF r.ok THEN "write" ELSE "fail"

\* ------------------------------------------------------------------------
\* State
\* ------------------------------------------------------------------------

VARIABLES
    files,      \* path -> what the file holds
    lockFile,   \* path -> inode of the lock marker path + ".lock", 0: none
    fd,         \* process -> inode of its open lock marker, 0: none
    holds,      \* process -> whether it holds the flock of fd
    pc,         \* process -> where its invocation stands
    cmd,        \* process -> the command line it runs
    mem,        \* process -> the manifest it has in memory
    res,        \* process -> "", "running", "ok" or the error it returned
    todo,       \* process -> invocations it may still start
    menu,       \* process -> the command lines it may run
    opened,     \* process -> the paths its invocation opened for reading
    touched,    \* process -> the paths it created or wrote (markers included)
    snap,       \* process -> the files as they were when it was invoked
    entries,    \* the entry list an entrylist caller holds
    elOp,       \* the last entrylist call: its arguments and its outcome
    elPrevOp,   \* the call before it
    arrays,     \* the backing arrays of the Entry slices allocated so far
    slices,     \* the slices a caller holds: array, length, contents returned
    checked,    \* the manifest handed to validate.Secret, once it has been
    issues,     \* the findings validate.Secret returned for it
    stderr,     \* the lines the validate command wrote to standard error
    exit        \* the exit status of the validate command, -1: not run

procVars == <<files, lockFile, fd, holds, pc, cmd, mem, res, todo, menu,
              opened, touched, snap>>
sliceVars == <<arrays, slices>>
validateVars == <<checked, issues, stderr, exit>>
listVars == <<entries, elOp, elPrevOp, sliceVars, validateVars>>
vars == <<procVars, listVars>>

Procs == 1..NProcs

NoSecret == NewSecret("", "")

\* The smallest inode number no path and no descriptor refers to.
FreshInode ==
    LET used == {lockFile[x] : x \in DOMAIN lockFile} \cup {fd[q] : q \in Procs}
    IN  CHOOSE i \in 1..(Cardinality(used) + 1) :
            i \notin used /\ \A j \in 1..(i - 1) : j \in used

\* A lock granted only to the one process that has the marker open: two
\* processes that opened it wait for each other.
LockFree_soleOpener(inode, p) == \A q \in Procs \ {p} : fd[q] # inode

\* flock(LOCK_EX) returns once no other descriptor holds the lock of the inode.
LockFree(inode, p) == \A q \in Procs \ {p} : ~(fd[q] = inode /\ holds[q])

\* Whether p runs under withExclusiveLock with a non-empty path.
Locked(p) == UsesLock(cmd[p]) /\ OutputPath(cmd[p]) # Stdout

\* A wrapper that unlocks after fn() instead of deferring: an error of fn
\* returns at once.
Return_unlockOnSuccess(p, e) ==
    /\ res' = [res EXCEPT ![p] = e]
    /\ pc' = [pc EXCEPT ![p] = IF Locked(p) /\ e = "ok" THEN "unlock" ELSE "idle"]

\* The handler returns e: the deferred unlock runs first when there is one.
Return(p, e) ==
    /\ res' = [res EXCEPT ![p] = e]
    /\ pc' = [pc EXCEPT ![p] = IF Locked(p) THEN "unlock" ELSE "idle"]

\* ------------------------------------------------------------------------
\* Actions: the steps of one invocation
\* ------------------------------------------------------------------------

\* The tool is started with one command line; the handler reads its flags
\* and checks what it checks before touching a file.
Invoke(p) ==
    /\ pc[p] = "idle"
    /\ todo[p] > 0
    /\ \E c \in menu[p] :
        /\ cmd' = [cmd EXCEPT ![p] = c]
        /\ IF Precheck(c) # ""
           THEN /\ res' = [res EXCEPT ![p] = Precheck(c)]
                /\ pc' = [pc EXCEPT ![p] = "idle"]
           ELSE /\ res' = [res EXCEPT ![p] = "running"]
                /\ pc' = [pc EXCEPT ![p] =
                            IF UsesLock(c) THEN "open"
                            ELSE IF ReadsInput(c) THEN "read"
                            ELSE "apply"]
    /\ todo' = [todo EXCEPT ![p] = @ - 1]
    /\ mem' = [mem EXCEPT ![p] = NoSecret]
    /\ opened' = [opened EXCEPT ![p] = {}]
    /\ touched' = [touched EXCEPT ![p] = {}]
    /\ snap' = [snap EXCEPT ![p] = files]
    /\ UNCHANGED <<files, lockFile, fd, holds, menu, listVars>>

\* A wrapper without the test for the empty path: the marker ".lock" is
\* opened whatever the path.
LockOpen_always(p) ==
    /\ pc[p] = "open"
    /\ fd' = [fd EXCEPT ![p] = FreshInode]
    /\ touched' = [touched EXCEPT ![p] = @ \cup {OutputPath(cmd[p])}]
    /\ pc' = [pc EXCEPT ![p] = "flock"]
    /\ UNCHANGED <<files, lockFile, holds, cmd, mem, res, todo, menu, opened, snap,
                   listVars>>

\* withExclusiveLock: os.OpenFile(path + ".lock", O_CREATE|O_RDWR); with an
\* empty path fn is called directly.
LockOpen(p) ==
    /\ pc[p] = "open"
    /\ LET path == OutputPath(cmd[p])
       IN  IF path = Stdout
           THEN /\ pc' = [pc EXCEPT ![p] = "read"]
                /\ UNCHANGED <<lockFile, fd, touched>>
           ELSE LET inode == IF lockFile[path] # 0 THEN lockFile[path] ELSE FreshInode
                IN  /\ lockFile' = [lockFile EXCEPT ![path] = inode]
                    /\ fd' = [fd EXCEPT ![p] = inode]
                    /\ touched' = [touched EXCEPT ![p] = @ \cup {path}]
                    /\ pc' = [pc EXCEPT ![p] = "flock"]
    /\ UNCHANGED <<files, holds, cmd, mem, res, todo, menu, opened, snap, listVars>>

\* withExclusiveLock: syscall.Flock(fd, LOCK_EX) blocks until the lock is free.
LockAcquire(p) ==
    /\ pc[p] = "flock"
    /\ LockFree(fd[p], p)
    /\ holds' = [holds EXCEPT ![p] = TRUE]
    /\ pc' = [pc EXCEPT ![p] = "read"]
    /\ UNCHANGED <<files, lockFile, fd, cmd, mem, res, todo, menu, opened,
                   touched, snap, listVars>>

\* manifest.FromFile(input): the file is opened and parsed as a Secret.
Read(p) ==
    /\ pc[p] = "read"
    /\ LET path == cmd[p].input
       IN  /\ opened' = [opened EXCEPT ![p] = @ \cup {path}]
           /\ IF Exists(files, path) /\ files[path].kind = "secret"
              THEN /\ mem' = [mem EXCEPT ![p] = files[path].m]
                   /\ pc' = [pc EXCEPT ![p] = "apply"]
                   /\ UNCHANGED res
              ELSE /\ Return(p, "load secret")
                   /\ UNCHANGED mem
    /\ UNCHANGED <<files, lockFile, fd, holds, cmd, todo, menu, touched, snap, listVars>>

\* What the handler does with the result r of its steps: it goes on to
\* writeSecretTo, or returns the first error.
Applied(p, r) ==
    /\ mem' = [mem EXCEPT ![p] = r.s]
    /\ opened' = [opened EXCEPT ![p] = @ \cup r.read]
    /\ IF BodyOutcome(r) = "write"
       THEN /\ pc' = [pc EXCEPT ![p] = "write"]
            /\ res' = [res EXCEPT ![p] = IF r.ok THEN @ ELSE r.err]
       ELSE Return(p, r.err)

\* The handler changes the manifest in memory, reading the files its flags name.
Apply(p) ==
    /\ pc[p] = "apply"
    /\ \E rnd \in RandomDraws(cmd[p]) : Applied(p, Body(cmd[p], mem[p], files, rnd))
    /\ UNCHANGED <<files, lockFile, fd, holds, cmd, todo, menu, touched, snap, listVars>>

\* writeSecretTo -> writeOutput: os.WriteFile(path, data, 0600), or stdout.
Write(p) ==
    /\ pc[p] = "write"
    /\ LET path == OutputPath(cmd[p])
       IN  IF path = Stdout
           THEN UNCHANGED <<files, touched>>
           ELSE /\ files' = [files EXCEPT ![path] = Written(cmd[p], mem[p])]
                /\ touched' = [touched EXCEPT ![p] = @ \cup {path}]
    /\ Return(p, IF res[p] = "running" THEN "ok" ELSE res[p])
    /\ UNCHANGED <<lockFile, fd, holds, cmd, mem, todo, menu, opened, snap, listVars>>

\* The deferred function: syscall.Flock(fd, LOCK_UN)
Unlock(p) ==
    /\ pc[p] = "unlock"
    /\ holds' = [holds EXCEPT ![p] = FALSE]
    /\ pc' = [pc EXCEPT ![p] = "close"]
    /\ UNCHANGED <<files, lockFile, fd, cmd, mem, res, todo, menu, opened,
                   touched, snap, listVars>>

\* The deferred function: lf.Close()
Close(p) ==
    /\ pc[p] = "close"
    /\ fd' = [fd EXCEPT ![p] = 0]
    /\ holds' = [holds EXCEPT ![p] = FALSE]
    /\ pc' = [pc EXCEPT ![p] = "remove"]
    /\ UNCHANGED <<files, lockFile, cmd, mem, res, todo, menu, opened,
                   touched, snap, listVars>>

\* A deferred function without os.Remove(lockPath).
RemoveMarker_kept(p) ==
    /\ pc[p] = "remove"
    /\ pc' = [pc EXCEPT ![p] = "idle"]
    /\ UNCHANGED <<files, lockFile, fd, holds, cmd, mem, res, todo, menu, opened,
                   touched, snap, listVars>>

\* The deferred function: os.Remove(lockPath) unlinks whatever the path names.
RemoveMarker(p) ==
    /\ pc[p] = "remove"
    /\ lockFile' = [lockFile EXCEPT ![OutputPath(cmd[p])] = 0]
    /\ pc' = [pc EXCEPT ![p] = "idle"]
    /\ UNCHANGED <<files, fd, holds, cmd, mem, res, todo, menu, opened,
                   touched, snap, listVars>>

\* The steps of a handler that takes no lock.
NextPlain == \E p \in Procs : Invoke(p) \/ Read(p) \/ Apply(p) \/ Write(p)

\* The steps of withExclusiveLock around a handler.
NextLock ==
    \E p \in Procs :
        LockOpen(p) \/ LockAcquire(p) \/ Unlock(p) \/ Close(p) \/ RemoveMarker(p)

Next == NextPlain \/ NextLock

\* ------------------------------------------------------------------------
\* Command lines and initial states
\* ------------------------------------------------------------------------

\* update --input s --set k=v
Upd(k, v) ==
    [BaseCmd EXCEPT !.name = "update", !.input = SecretFile,
                    !.sets = << <<k, "=", v>> >>]

UpdA == Upd("A", "1")
UpdB == Upd("B", "2")

\* A manifest as generate leaves it, holding the data d.
SecretWith(d) == [NewSecret("app", "default") EXCEPT !.data = d]

\* The manifests the secret file may hold when the tool is started.
InitialSecrets ==
    { SecretWith(EmptyMap),
      SecretWith(MapSet(EmptyMap, <<"A">>, <<"0">>)),
      SecretWith(MapSet(EmptyMap, <<"B">>, <<"0">>)),
      SecretWith(MapSet(MapSet(EmptyMap, <<"U">>, <<"a", ";", "b">>),
                        <<"P">>, <<"x", ";", "y">>)) }

\* The working directory: the secret file and a certificate.
FilesWith(s) ==
    [x \in Paths |->
        IF x = SecretFile THEN ManifestOf(s)
        ELSE IF x = CertFile THEN TextOf(<<"pem">>)
        ELSE NoFile]

NoOp == [op |-> "none", ok |-> TRUE, err |-> "", key |-> <<>>, value |-> <<>>,
         idx |-> 0, sep |-> <<>>, K |-> <<>>, V |-> <<>>, before |-> <<>>,
         out |-> <<>>, a |-> 0, b |-> 0]

\* No process has started; process p may run t[p] commands out of m[p].
InitProcs(m, t, f) ==
    /\ files = f
    /\ lockFile = [x \in Paths |-> 0]
    /\ fd = [p \in Procs |-> 0]
    /\ holds = [p \in Procs |-> FALSE]
    /\ pc = [p \in Procs |-> "idle"]
    /\ cmd = [p \in Procs |-> BaseCmd]
    /\ mem = [p \in Procs |-> NoSecret]
    /\ res = [p \in Procs |-> ""]
    /\ todo = t
    /\ menu = m
    /\ opened = [p \in Procs |-> {}]
    /\ touched = [p \in Procs |-> {}]
    /\ snap = [p \in Procs |-> f]
    /\ entries = <<>>
    /\ elOp = NoOp
    /\ elPrevOp = NoOp
    /\ arrays = <<>>
    /\ slices = <<>>
    /\ checked = <<>>
    /\ issues = <<>>
    /\ stderr = <<>>
    /\ exit = -1

\* Every process runs one update of the same file.
InitLock ==
    \E s \in InitialSecrets :
        InitProcs([p \in Procs |-> {UpdA, UpdB}], [p \in Procs |-> 1], FilesWith(s))

SpecLock == InitLock /\ [][Next]_vars

\* Exactly two processes, one setting A and one setting B.
InitTwoUpdates ==
    \E s \in InitialSecrets :
        InitProcs([p \in Procs |-> IF p = 1 THEN {UpdA} ELSE IF p = 2 THEN {UpdB} ELSE {}],
                  [p \in Procs |-> IF p <= 2 THEN 1 ELSE 0], FilesWith(s))

SpecTwoUpdates == InitTwoUpdates /\ [][Next]_vars

\* Whether p is inside the unit of work passed to withExclusiveLock.
InUnitOfWork(p) == Locked(p) /\ pc[p] \in {"read", "apply", "write"}

\* C1: at most one invocation of withExclusiveLock on a path runs its unit of
\* work at any time, for any number of concurrent invocations.
C1_MutualExclusion ==
    \A p, q \in Procs :
        (p # q /\ InUnitOfWork(p) /\ OutputPath(cmd[p]) = OutputPath(cmd[q]))
            => ~InUnitOfWork(q)

\* C2: once both updates have returned, the file holds both A and B.
C2_BothKeysKept ==
    (pc[1] = "idle" /\ pc[2] = "idle" /\ res[1] = "ok" /\ res[2] = "ok")
        => /\ files[SecretFile].kind = "secret"
           /\ MapGet(files[SecretFile].m.data, <<"A">>) = <<"1">>
           /\ MapGet(files[SecretFile].m.data, <<"B">>) = <<"2">>

\* Both updates have run to completion.
C2_Witness ==
    /\ pc[1] = "idle" /\ pc[2] = "idle" /\ res[1] = "ok" /\ res[2] = "ok"
    /\ cmd[1] = UpdA /\ cmd[2] = UpdB

\* ------------------------------------------------------------------------
\* The read-modify-write commands side by side
\* ------------------------------------------------------------------------

\* add-entry --input s --entries-key U --entries-val P --key k --value v
AddEntry(k, v) ==
    [BaseCmd EXCEPT !.name = "add-entry", !.input = SecretFile,
                    !.entriesKey = <<"U">>, !.entriesVal = <<"P">>,
                    !.key = k, !.value = v]

\* add-entry ... --index i
InsEntry(i, k, v) == [AddEntry(k, v) EXCEPT !.idx = i]

\* remove-entry --input s --entries-key U --entries-val P --key k
RemEntryKey(k) ==
    [BaseCmd EXCEPT !.name = "remove-entry", !.input = SecretFile,
                    !.entriesKey = <<"U">>, !.entriesVal = <<"P">>, !.key = k]

\* remove-entry ... --value v
RemEntryVal(v) ==
    [BaseCmd EXCEPT !.name = "remove-entry", !.input = SecretFile,
                    !.entriesKey = <<"U">>, !.entriesVal = <<"P">>, !.value = v]

\* rotate --input s --key k
Rotate(k) == [BaseCmd EXCEPT !.name = "rotate", !.input = SecretFile, !.rkeys = <<k>>]

\* edit --input s, the editor leaving the given lines
Edit(lines) == [BaseCmd EXCEPT !.name = "edit", !.input = SecretFile, !.edited = lines]

AddC == AddEntry(<<"c">>, <<"z">>)
AddD == AddEntry(<<"d">>, <<"w">>)

RMWMenu ==
    { AddC, AddD, UpdA, Rotate(<<"A">>), RemEntryKey(<<"a">>),
      Edit(<< <<"B", "=", "9">> >>) }

\* Two processes, each running one read-modify-write command on the file.
InitRMW ==
    \E s \in InitialSecrets :
        InitProcs([p \in Procs |-> IF p <= 2 THEN RMWMenu ELSE {}],
                  [p \in Procs |-> IF p <= 2 THEN 1 ELSE 0], FilesWith(s))

SpecRMW == InitRMW /\ [][Next]_vars

\* The keys of the paired list the secret file holds.
StoredKeys ==
    LET l == loadEntries(files[SecretFile].m, <<"U">>, <<"P">>, <<";">>)
    IN  {l.entries[i].Key : i \in 1..Len(l.entries)}

\* C3: two concurrent read-modify-write commands on one file never lose one
\* of the two updates: after two add-entry calls adding c and d have both
\* succeeded, the stored list holds both c and d.
C3_NoLostUpdate ==
    \A p, q \in Procs :
        (/\ pc[p] = "idle" /\ pc[q] = "idle"
         /\ res[p] = "ok" /\ res[q] = "ok"
         /\ cmd[p] = AddC /\ cmd[q] = AddD)
            => {<<"c">>, <<"d">>} \subseteq StoredKeys

\* ------------------------------------------------------------------------
\* One invocation after another
\* ------------------------------------------------------------------------

\* generate --name app --output out
Gen(out) == [BaseCmd EXCEPT !.name = "generate", !.newName = "app", !.output = out]

\* copy --input in --output out --name app2
Copy(in, out) ==
    [BaseCmd EXCEPT !.name = "copy", !.input = in, !.output = out, !.newName = "app2"]

\* Command lines that succeed on some file and fail on another.
MutatingMenu ==
    { UpdA,
      [UpdA EXCEPT !.sets = << <<"A">> >>],
      [UpdA EXCEPT !.sets = << <<"B", "=", "2">>, <<"!", "=", "1">> >>],
      [UpdA EXCEPT !.setFiles = << <<"B", "=", "g">> >>],
      [UpdA EXCEPT !.setFiles = << <<"B", "=", "c">> >>],
      [UpdA EXCEPT !.deleteKeys = << <<"B">> >>],
      [UpdA EXCEPT !.labels = << <<"l">> >>],
      [UpdA EXCEPT !.output = OtherFile],
      Rotate(<<"A">>),
      [Rotate(<<"A">>) EXCEPT !.rkeys = << <<"A">>, <<"B">> >>],
      [Rotate(<<"A">>) EXCEPT !.charset = "octal"],
      [Rotate(<<"A">>) EXCEPT !.length = 0],
      AddC,
      AddEntry(<<"a">>, <<"x">>),
      InsEntry(5, <<"d">>, <<"w">>),
      RemEntryKey(<<"a">>),
      RemEntryKey(<<"q">>),
      RemEntryVal(<<"y">>),
      Edit(<< <<"B", "=", "9">> >>),
      Edit(<< <<"B", "=", "9">>, <<"!", "=", "1">> >>),
      Edit(<< <<"B">> >>),
      [Edit(<< <<"B", "=", "9">> >>) EXCEPT !.editor = "fails"],
      [Edit(<< <<"B", "=", "9">> >>) EXCEPT !.editor = "missing"] }

\* Command lines naming a path that leaves the current directory.
EscapingMenu ==
    { [UpdA EXCEPT !.input = EvilFile],
      [UpdA EXCEPT !.output = EvilFile],
      [UpdA EXCEPT !.setFiles = << <<"B", "=", "..", "/", "e">> >>],
      [Rotate(<<"A">>) EXCEPT !.input = EvilFile],
      [AddC EXCEPT !.output = EvilFile],
      [Edit(<< <<"B", "=", "9">> >>) EXCEPT !.input = EvilFile],
      Copy(EvilFile, OtherFile),
      Copy(SecretFile, EvilFile),
      [Gen(EvilFile) EXCEPT !.sets = << <<"A", "=", "1">> >>],
      [Gen(OtherFile) EXCEPT !.tlsCert = EvilFile, !.tlsKey = CertFile],
      [Gen(OtherFile) EXCEPT !.tlsCert = CertFile, !.tlsKey = CertFile] }

SeqMenu == MutatingMenu \cup EscapingMenu

\* One process runs up to MaxInvocations commands, each to completion.
InitSeq ==
    \E s \in InitialSecrets :
        InitProcs([p \in Procs |-> IF p = 1 THEN SeqMenu ELSE {}],
                  [p \in Procs |-> IF p = 1 THEN MaxInvocations ELSE 0], FilesWith(s))

SpecSeq == InitSeq /\ [][Next]_vars

\* Whether p has returned from a read-modify-write command with an error.
Failed(p) ==
    /\ pc[p] = "idle"
    /\ cmd[p].name \in RMWCommands
    /\ res[p] \notin {"", "running", "ok"}

\* C4: a read-modify-write command that fails at any step performs no write:
\* every file holds what it held when the command was invoked.
C4_NoWriteOnFailure == \A p \in Procs : Failed(p) => files = snap[p]

\* A command failed after it had already changed the manifest in memory.
C4_Witness ==
    \E p \in Procs :
        /\ Failed(p)
        /\ snap[p][cmd[p].input].kind = "secret"
        /\ mem[p] # NoSecret
        /\ mem[p] # snap[p][cmd[p].input].m

\* C5: no command creates or writes a file (lock marker included) at a path
\* that leaves the current directory.
C5_OutputPathGuard == \A p \in Procs : \A x \in touched[p] : ~Escapes(x)

\* C6: no command opens for reading a path that leaves the current directory.
C6_InputPathGuard == \A p \in Procs : \A x \in opened[p] : ~Escapes(x)

\* ------------------------------------------------------------------------
\* The paired index-list commands, one after another
\* ------------------------------------------------------------------------

\* generate --name app --output s --entries-key U --entries-val P --entry ...
GenEntries(flags) ==
    [Gen(SecretFile) EXCEPT !.entriesKey = <<"U">>, !.entriesVal = <<"P">>,
                            !.entryFlags = flags]

EntryMenu ==
    { GenEntries(<< <<"a", ":", "x">>, <<"b", ":", "y">> >>),
      GenEntries(<< <<"a", ":", "x">> >>),
      GenEntries(<< <<"a", ":", "x">>, <<"a", ":", "y">> >>),
      GenEntries(<< <<":", "x">> >>),
      AddC,
      AddEntry(<<"c">>, <<"z", ";", "w">>),
      AddEntry(<<"a">>, <<"x">>),
      InsEntry(0, <<"d">>, <<"w">>),
      InsEntry(1, <<"d">>, <<"y">>),
      RemEntryKey(<<"a">>),
      RemEntryKey(<<"c">>),
      RemEntryVal(<<"y">>),
      RemEntryVal(<<"z">>) }

\* Nothing but generate --entry, add-entry and remove-entry runs; the secret
\* file does not exist before the first generate.
InitEntryCmds ==
    InitProcs([p \in Procs |-> IF p = 1 THEN EntryMenu ELSE {}],
              [p \in Procs |-> IF p = 1 THEN MaxInvocations + 1 ELSE 0],
              [FilesWith(NoSecret) EXCEPT ![SecretFile] = NoFile])

SpecEntryCmds == InitEntryCmds /\ [][NextPlain]_vars

\* The number of tokens Parse finds in the list stored under key.
StoredTokens(key) == Len(splitTrimmed(MapGet(files[SecretFile].m.data, key), <<";">>))

\* C7: whatever generate --entry, add-entry and remove-entry have stored, the
\* key list and the value list parse into the same number of tokens.
C7_StoredListsEqualLength ==
    files[SecretFile].kind = "secret" => StoredTokens(<<"U">>) = StoredTokens(<<"P">>)

\* ------------------------------------------------------------------------
\* internal/entrylist called directly
\* ------------------------------------------------------------------------

\* The tokens key lists and value lists are joined from, and the separators.
KTokens == {<<"a">>, <<"b">>, <<" ", "a">>, <<"a", ";">>, <<>>}
VTokens == {<<"x">>, <<"y">>, <<"x", " ">>, <<>>}
Seps == {<<";">>, <<";", ";">>}

\* The keys and values handed to Add, Insert, Remove and RemoveByValue.
EKeys == {<<"a">>, <<"b">>, <<"c">>, <<>>}
EValues == {<<"x">>, <<"y">>}

\* The lists of at most MaxTokens tokens.
TokenLists(tokens) == UNION {[1..n -> tokens] : n \in 0..MaxTokens}

\* Whether the call op(k, v) takes back what the call before it did: Serialize
\* joins what Parse split, Remove(k) and RemoveByValue(v) take out the entry
\* that Add or Insert put in.
Reverses(op, k, v) ==
    /\ elOp.ok
    /\ \/ op = "Serialize" /\ elOp.op = "Parse"
       \/ op = "Remove" /\ elOp.op \in {"Add", "Insert"} /\ k = elOp.key
       \/ op = "RemoveByValue" /\ elOp.op \in {"Add", "Insert"} /\ v = elOp.value

\* A call returned r: on success the caller holds the new list, on an error
\* it still holds the one it had. The call before is remembered when this
\* one reverses it.
Returned(op, r, k, v, i, sep, K, V) ==
    /\ entries' = IF r.ok THEN r.entries ELSE entries
    /\ elOp' = [op |-> op, ok |-> r.ok, err |-> r.err, key |-> k, value |-> v,
                idx |-> i, sep |-> sep, K |-> K, V |-> V, before |-> entries,
                out |-> <<>>, a |-> r.a, b |-> r.b]
    /\ elPrevOp' = IF Reverses(op, k, v) THEN elOp ELSE NoOp
    /\ UNCHANGED <<procVars, sliceVars, validateVars>>

\* entries, err := entrylist.Parse(strings.Join(K, sep), strings.Join(V, sep), sep)
\* for token lists over kt and vt and a separator of seps.
EParse(kt, vt, seps) ==
    /\ elOp.op = "none"
    /\ \E K \in TokenLists(kt), V \in TokenLists(vt), sep \in seps :
        Returned("Parse", Parse(Join(K, sep), Join(V, sep), sep),
                 <<>>, <<>>, 0, sep, K, V)

\* entries, err = entrylist.Add(entries, k, v)
EAdd ==
    /\ elOp.op # "none"
    /\ Len(entries) < MaxEntries
    /\ \E k \in EKeys, v \in EValues :
        Returned("Add", Add(entries, k, v), k, v, 0, elOp.sep, <<>>, <<>>)

\* entries, err = entrylist.Insert(entries, i, k, v)
EInsert ==
    /\ elOp.op # "none"
    /\ Len(entries) < MaxEntries
    /\ \E i \in -1..(Len(entries) + 1), k \in EKeys, v \in EValues :
        Returned("Insert", Insert(entries, i, k, v), k, v, i, elOp.sep, <<>>, <<>>)

\* entries, err = entrylist.Remove(entries, k)
ERemove ==
    /\ elOp.op # "none"
    /\ \E k \in EKeys :
        Returned("Remove", Remove(entries, k), k, <<>>, 0, elOp.sep, <<>>, <<>>)

\* entries, err = entrylist.RemoveByValue(entries, v)
ERemoveByValue ==
    /\ elOp.op # "none"
    /\ \E v \in EValues :
        Returned("RemoveByValue", RemoveByValue(entries, v), <<>>, v, 0,
                 elOp.sep, <<>>, <<>>)

\* keysVal, valsVal := entrylist.Serialize(entries, sep), with the separator
\* the list was parsed with.
ESerialize ==
    /\ elOp.op \notin {"none", "Serialize"}
    /\ elOp' = [NoOp EXCEPT !.op = "Serialize", !.sep = elOp.sep, !.before = entries,
                            !.out = Serialize(entries, elOp.sep)]
    /\ elPrevOp' = IF Reverses("Serialize", <<>>, <<>>) THEN elOp ELSE NoOp
    /\ UNCHANGED <<entries, procVars, sliceVars, validateVars>>

\* A caller parses two stored lists and then changes the list call by call.
NextEntry ==
    \/ EParse({<<"a">>, <<"b">>}, {<<"x">>, <<"y">>}, {<<";">>})
    \/ EAdd \/ EInsert \/ ERemove \/ ERemoveByValue \/ ESerialize

\* No command runs; a caller of the package holds one list.
InitEntry ==
    InitProcs([p \in Procs |-> {}], [p \in Procs |-> 0], FilesWith(NoSecret))

SpecEntry == InitEntry /\ [][NextEntry]_vars

\* A caller parses two lists built from any tokens and serialises the result.
NextRoundTrip == EParse(KTokens, VTokens, Seps) \/ ESerialize

SpecRoundTrip == InitEntry /\ [][NextRoundTrip]_vars

\* Whether the keys of es are pairwise distinct.
UniqueKeys(es) == \A i, j \in 1..Len(es) : es[i].Key = es[j].Key => i = j

\* C8: a list returned by a successful Parse, Add, Insert, Remove or
\* RemoveByValue has pairwise distinct keys, and Keys of it is as long as it.
C8_KeysDistinct ==
    (elOp.op \notin {"none", "Serialize"} /\ elOp.ok)
        => UniqueKeys(entries) /\ Len(Keys(entries)) = Len(entries)

\* The precondition of the round trip as the spec words it: K is not empty,
\* V is as long as K, and sep occurs in no token.
SepInNoToken(K, V, sep) ==
    /\ \A i \in 1..Len(K) : ~Contains(K[i], sep)
    /\ \A i \in 1..Len(V) : ~Contains(V[i], sep)

\* Whether no token is empty or starts or ends with whitespace.
CleanTokens(L) == \A i \in 1..Len(L) : L[i] # <<>> /\ TrimSpace(L[i]) = L[i]

\* The last call is Serialize of what Parse returned for the lists K and V,
\* K not empty, V as long as K and sep in no token.
SerializedParse ==
    /\ elOp.op = "Serialize" /\ elPrevOp.op = "Parse"
    /\ elPrevOp.K # <<>> /\ Len(elPrevOp.K) = Len(elPrevOp.V)
    /\ SepInNoToken(elPrevOp.K, elPrevOp.V, elPrevOp.sep)

\* (join(K, sep), join(V, sep)) of the Parse call before.
Joined == <<Join(elPrevOp.K, elPrevOp.sep), Join(elPrevOp.V, elPrevOp.sep)>>

RemovedAgain ==
    /\ elOp.op \in {"Remove", "RemoveByValue"}
    /\ elPrevOp.op \in {"Add", "Insert"}
    /\ UniqueKeys(elPrevOp.before)

\* The 0-based position the entry was put at.
AddedAt == IF elPrevOp.op = "Add" THEN Len(elPrevOp.before) ELSE elPrevOp.idx

\* C10 as stated: Remove(k) or RemoveByValue(v) after Add or Insert of (k, v)
\* yields the original sequence.
C10_RemoveRestores == RemovedAgain => (elOp.ok /\ entries = elPrevOp.before)

\* C10 amended: Remove(k) always restores the original; RemoveByValue(v)
\* restores it when no entry placed before the new one holds the value v.
C10_RemoveRestoresFirst ==
    (/\ RemovedAgain
     /\ elOp.op = "RemoveByValue" =>
            \A i \in 1..AddedAt : elPrevOp.before[i].Value # elOp.value)
        => (elOp.ok /\ entries = elPrevOp.before)

\* An entry was inserted in the middle of a list and removed again by value.
C10_Witness ==
    /\ RemovedAgain
    /\ elOp.op = "RemoveByValue" /\ elPrevOp.op = "Insert"
    /\ AddedAt >= 1 /\ AddedAt < Len(elPrevOp.before)
    /\ \A i \in 1..AddedAt : elPrevOp.before[i].Value # elOp.value
    /\ entries = elPrevOp.before

\* ------------------------------------------------------------------------
\* Parse, token by token
\* ------------------------------------------------------------------------

\* The 1-based positions of the tokens of L that are empty.
EmptyAt(L) == {i \in 1..Len(L) : L[i] = <<>>}

\* The last call is Parse of as many key tokens as value tokens.
ParsedLists == elOp.op = "Parse" /\ elOp.K # <<>> /\ Len(elOp.K) = Len(elOp.V)

\* C11: Parse fails with an empty-key error naming the index whenever a
\* key-side token is empty at that index (index 0 for ";bob", "pass1;pass2").
C11_EmptyKeyError ==
    (ParsedLists /\ EmptyAt(elOp.K) # {})
        => /\ ~elOp.ok
           /\ elOp.err = "emptykey"
           /\ elOp.a + 1 \in EmptyAt(elOp.K)

\* The tokens of L that are not empty after trimming, trimmed, in order.
RECURSIVE Surviving(_)
Surviving(L) ==
    IF L = <<>> THEN <<>>
    ELSE IF TrimSpace(Head(L)) = <<>> THEN Surviving(Tail(L))
    ELSE <<TrimSpace(Head(L))>> \o Surviving(Tail(L))

\* Whether no token of L holds a character of sep, so that the joined string
\* splits at the joins and nowhere else.
NoSepChar(L, sep) ==
    \A i \in 1..Len(L) : \A j \in 1..Len(L[i]) : \A k \in 1..Len(sep) : L[i][j] # sep[k]

\* The last call is Parse of two joined token lists that split back into
\* their tokens.
ParsedTokens ==
    /\ elOp.op = "Parse"
    /\ NoSepChar(elOp.K, elOp.sep) /\ NoSepChar(elOp.V, elOp.sep)

\* C12: Parse succeeds exactly when as many key tokens as value tokens
\* survive trimming and dropping, pairing them in order; otherwise it fails
\* with a length mismatch naming both counts.
C12_ParsePairsSurvivors ==
    ParsedTokens =>
        IF Len(Surviving(elOp.K)) = Len(Surviving(elOp.V))
        THEN /\ elOp.ok
             /\ Len(entries) = Len(Surviving(elOp.K))
             /\ \A i \in 1..Len(entries) :
                    /\ entries[i].Key = Surviving(elOp.K)[i]
                    /\ entries[i].Value = Surviving(elOp.V)[i]
        ELSE /\ ~elOp.ok
             /\ elOp.err = "mismatch"
             /\ elOp.a = Len(Surviving(elOp.K))
             /\ elOp.b = Len(Surviving(elOp.V))

\* Parse dropped an empty key token and trimmed a value token, and paired
\* what was left.
C12_Witness ==
    /\ ParsedTokens /\ elOp.ok
    /\ elOp.K = << <<>>, <<"b">> >>
    /\ elOp.V = << <<"x", " ">> >>
    /\ entries = << Entry(<<"b">>, <<"x">>) >>

\* ------------------------------------------------------------------------
\* Remove, Insert and RemoveByValue, call by call
\* ------------------------------------------------------------------------

\* Whether after is before without its entry at the 1-based position i.
WithoutAt(before, after, i) ==
    after = SubSeq(before, 1, i - 1) \o SubSeq(before, i + 1, Len(before))

\* C13: Remove(entries, key) fails with not-found when no entry has the key,
\* and otherwise returns the input without exactly one entry, the one with
\* that key, the others in their order.
C13_RemoveExactlyOne ==
    elOp.op = "Remove" =>
        IF \A i \in 1..Len(elOp.before) : elOp.before[i].Key # elOp.key
        THEN ~elOp.ok /\ elOp.err = "notfound"
        ELSE /\ elOp.ok
             /\ \E i \in 1..Len(elOp.before) :
                    /\ elOp.before[i].Key = elOp.key
                    /\ WithoutAt(elOp.before, entries, i)

\* C14: for a non-empty key, Insert at an index outside [0, len] fails with
\* an out-of-range error; at an index inside, for a key not in the list, it
\* returns a list one longer with (k, v) at that index, the entries before it
\* unchanged and the others one place later; at index len it equals Add.
C14_InsertAtIndex ==
    (elOp.op = "Insert" /\ elOp.key # <<>>) =>
        IF elOp.idx < 0 \/ elOp.idx > Len(elOp.before)
        THEN ~elOp.ok /\ elOp.err = "range"
        ELSE (\A i \in 1..Len(elOp.before) : elOp.before[i].Key # elOp.key) =>
            /\ elOp.ok
            /\ Len(entries) = Len(elOp.before) + 1
            /\ entries[elOp.idx + 1] = Entry(elOp.key, elOp.value)
            /\ \A j \in 1..elOp.idx : entries[j] = elOp.before[j]
            /\ \A j \in (elOp.idx + 1)..Len(elOp.before) : entries[j + 1] = elOp.before[j]
            /\ elOp.idx = Len(elOp.before) =>
                   Add(elOp.before, elOp.key, elOp.value) = Ok(entries)

\* An entry was inserted between two others.
C14_Witness ==
    /\ elOp.op = "Insert" /\ elOp.ok
    /\ elOp.idx = 1 /\ Len(elOp.before) = 2
    /\ entries[1] = elOp.before[1] /\ entries[3] = elOp.before[2]

\* C15: RemoveByValue fails with not-found when no entry has the value, and
\* otherwise returns the input without the first entry that has it, every
\* other entry (later ones with the same value included) kept in order.
C15_RemoveFirstMatch ==
    elOp.op = "RemoveByValue" =>
        IF \A i \in 1..Len(elOp.before) : elOp.before[i].Value # elOp.value
        THEN ~elOp.ok /\ elOp.err = "notfound"
        ELSE /\ elOp.ok
             /\ \E i \in 1..Len(elOp.before) :
                    /\ elOp.before[i].Value = elOp.value
                    /\ \A j \in 1..(i - 1) : elOp.before[j].Value # elOp.value
                    /\ WithoutAt(elOp.before, entries, i)

\* Of two entries with the same value the first was removed, the second kept.
C15_Witness ==
    /\ elOp.op = "RemoveByValue" /\ elOp.ok
    /\ Len(elOp.before) >= 2
    /\ elOp.before[1].Value = elOp.value /\ elOp.before[2].Value = elOp.value
    /\ entries = Tail(elOp.before)

\* ------------------------------------------------------------------------
\* The entry lists as Go slices
\* ------------------------------------------------------------------------

\* How many slices a caller keeps, and how much more than asked an append
\* that has to grow may allocate.
MaxSlices == 4
MaxSpare == 1

\* make([]Entry, len(es), c) holding es: the elements past the length are zero.
ZeroEntry == Entry(<<>>, <<>>)
Made(es, c) == es \o [i \in 1..(c - Len(es)) |-> ZeroEntry]

\* What a slice header reads from the arrays A: the first len elements of
\* its array (every slice of the package starts at element 0).
Content(A, s) == SubSeq(A[s.arr], 1, s.len)
Cap(s) == Len(arrays[s.arr])

\* The caller keeps the slice a call returned: es at the front of array arr.
Kept(arr, es) ==
    slices' = Append(slices, [arr |-> arr, len |-> Len(es), seen |-> es])

\* The call built its result in a new array of capacity c.
InNewArray(es, c) ==
    /\ arrays' = Append(arrays, Made(es, c))
    /\ Kept(Len(arrays) + 1, es)

\* append(entries, e) for the slice s: within the capacity the element is
\* written into the array of s; beyond it a larger array is allocated, of a
\* capacity the runtime chooses.
AppendTo(s, e) ==
    IF s.len < Cap(s)
    THEN /\ arrays' = [arrays EXCEPT ![s.arr][s.len + 1] = e]
         /\ Kept(s.arr, Append(Content(arrays, s), e))
    ELSE \E c \in (s.len + 1)..(s.len + 1 + MaxSpare) :
             InNewArray(Append(Content(arrays, s), e), c)

\* entries, err := entrylist.Parse(...): make([]Entry, len(keys)).
SParse ==
    /\ slices = <<>>
    /\ \E K \in TokenLists({<<"a">>, <<"b">>}), V \in TokenLists({<<"x">>}) :
        /\ Parse(Join(K, <<";">>), Join(V, <<";">>), <<";">>).ok
        /\ InNewArray(Parse(Join(K, <<";">>), Join(V, <<";">>), <<";">>).entries,
                      Len(K))
    /\ UNCHANGED <<procVars, entries, elOp, elPrevOp, validateVars>>

\* A call on the slice s returned the error of r: nothing was written.
SFailed(r) == ~r.ok /\ UNCHANGED vars

\* t, err := entrylist.Add(s, k, v) on a slice the caller holds.
SAdd ==
    /\ Len(slices) \in 1..(MaxSlices - 1)
    /\ \E h \in DOMAIN slices, k \in EKeys, v \in {<<"x">>} :
        /\ slices[h].len < MaxEntries
        /\ \/ SFailed(Add(Content(arrays, slices[h]), k, v))
           \/ /\ Add(Content(arrays, slices[h]), k, v).ok
              /\ AppendTo(slices[h], Entry(k, v))
              /\ UNCHANGED <<procVars, entries, elOp, elPrevOp, validateVars>>

\* t, err := entrylist.Insert(s, i, k, v): make([]Entry, 0, len(entries)+1).
SInsert ==
    /\ Len(slices) \in 1..(MaxSlices - 1)
    /\ \E h \in DOMAIN slices, k \in EKeys, v \in {<<"x">>} :
      \E i \in -1..(slices[h].len + 1) :
        /\ slices[h].len < MaxEntries
        /\ \/ SFailed(Insert(Content(arrays, slices[h]), i, k, v))
           \/ /\ Insert(Content(arrays, slices[h]), i, k, v).ok
              /\ InNewArray(Insert(Content(arrays, slices[h]), i, k, v).entries,
                            slices[h].len + 1)
              /\ UNCHANGED <<procVars, entries, elOp, elPrevOp, validateVars>>

\* t, err := entrylist.Remove(s, k): make([]Entry, 0, len(entries)).
SRemove ==
    /\ Len(slices) \in 1..(MaxSlices - 1)
    /\ \E h \in DOMAIN slices, k \in EKeys :
        \/ SFailed(Remove(Content(arrays, slices[h]), k))
        \/ /\ Remove(Content(arrays, slices[h]), k).ok
           /\ InNewArray(Remove(Content(arrays, slices[h]), k).entries,
                         slices[h].len)
           /\ UNCHANGED <<procVars, entries, elOp, elPrevOp, validateVars>>

\* t, err := entrylist.RemoveByValue(s, v): make([]Entry, 0, len(entries)).
SRemoveByValue ==
    /\ Len(slices) \in 1..(MaxSlices - 1)
    /\ \E h \in DOMAIN slices, v \in {<<"x">>, <<"y">>} :
        \/ SFailed(RemoveByValue(Content(arrays, slices[h]), v))
        \/ /\ RemoveByValue(Content(arrays, slices[h]), v).ok
           /\ InNewArray(RemoveByValue(Content(arrays, slices[h]), v).entries,
                         slices[h].len)
           /\ UNCHANGED <<procVars, entries, elOp, elPrevOp, validateVars>>

NextSlices == SParse \/ SAdd \/ SInsert \/ SRemove \/ SRemoveByValue

\* A caller parses a list and keeps every slice the calls return.
SpecSlices == InitEntry /\ [][NextSlices]_vars

\* C16: no call of Add, Insert, Remove or RemoveByValue changes a sequence
\* the caller holds: every slice kept from an earlier call still reads what
\* it read when it was returned.
C16_NoAliasing ==
    \A h \in DOMAIN slices : Content(arrays, slices[h]) = slices[h].seen

\* ------------------------------------------------------------------------
\* Units of work that fail under the lock
\* ------------------------------------------------------------------------

\* update --input s --set A: no "=" in the pair, splitKeyValue fails in fn.
UpdNoEq == [BaseCmd EXCEPT !.name = "update", !.input = SecretFile,
                           !.sets = << <<"A">> >>]

\* update --input g --output s: there is no file g, manifest.FromFile fails
\* in fn.
UpdNoFile == [BaseCmd EXCEPT !.name = "update", !.input = NoSuchFile,
                             !.output = SecretFile]

\* Two processes run updates of the same file one after another; some fail.
InitRelease ==
    InitProcs([p \in Procs |-> IF p = 1 THEN {UpdNoEq, UpdNoFile}
                               ELSE IF p = 2 THEN {UpdA, UpdNoEq} ELSE {}],
              [p \in Procs |-> IF p <= 2 THEN MaxInvocations ELSE 0],
              FilesWith(SecretWith(EmptyMap)))

\* The system calls of a started invocation; the scheduler lets it run.
Step(p) ==
    \/ LockOpen(p) \/ LockAcquire(p) \/ Read(p) \/ Write(p)
    \/ Unlock(p) \/ Close(p) \/ RemoveMarker(p)

\* A started invocation is not held up for ever at a step it can take. The
\* steps in memory, Apply(p), can be taken exactly when pc[p] = "apply" and
\* leave that position: weak fairness of Apply(p) is []<>(pc[p] # "apply").
Scheduled(p) == WF_vars(Step(p)) /\ []<>(pc[p] # "apply")

SpecRelease == InitRelease /\ [][Next]_vars /\ \A p \in Procs : Scheduled(p)

\* Whether p has returned from withExclusiveLock with the error of fn.
UnitFailed(p) ==
    /\ pc[p] = "idle" /\ Locked(p)
    /\ res[p] \in {"load secret", "format"}

\* C17: an invocation that has returned with the error of its unit of work
\* holds no lock and no descriptor; the deferred release leaves the error of
\* the unit of work as the wrapper's result; and every invocation that waits
\* for the lock gets it and runs.
C17_ReleasedOnFailure ==
    /\ [](\A p \in Procs : UnitFailed(p) => ~holds[p] /\ fd[p] = 0)
    /\ [][\A p \in Procs : pc[p] \in {"unlock", "close", "remove"} => res'[p] = res[p]]_vars
    /\ \A q \in Procs : (pc[q] = "flock") ~> (holds[q] /\ pc[q] = "read")

\* p has returned its unit's error; q, which opened the marker before p
\* removed it, holds the lock and runs.
C17_Witness ==
    \E p, q \in Procs :
        /\ p # q /\ UnitFailed(p) /\ OutputPath(cmd[p]) \in touched[p]
        /\ OutputPath(cmd[q]) = OutputPath(cmd[p])
        /\ holds[q] /\ pc[q] = "apply"
        /\ fd[q] # lockFile[OutputPath(cmd[q])]

\* Whether no invocation is under way and each process has run its own.
AllReturned == \A p \in Procs : pc[p] = "idle" /\ todo[p] = 0

\* C18: once every invocation of withExclusiveLock on a path has returned,
\* no marker file path.lock exists.
C18_MarkerRemoved == AllReturned => \A x \in Paths : lockFile[x] = 0

\* All have returned, one with an error and one with success, and both had
\* created or opened the marker.
C18_Witness ==
    /\ AllReturned
    /\ \E p, q \in Procs :
        /\ UnitFailed(p) /\ res[q] = "ok"
        /\ SecretFile \in touched[p] /\ SecretFile \in touched[q]
    /\ lockFile[SecretFile] = 0

\* ------------------------------------------------------------------------
\* validate: the findings of validate.Secret
\* ------------------------------------------------------------------------

\* How many data keys a validated manifest has at most.
MaxKeys == 2

Lower == {"a", "b", "c", "d", "e", "f", "g", "h", "i", "j", "k", "l", "m",
          "n", "o", "p", "q", "r", "s", "t", "u", "v", "w", "x", "y", "z"}
Upper == {"A", "B", "C", "D", "E", "F", "G", "H", "I", "J", "K", "L", "M",
          "N", "O", "P", "Q", "R", "S", "T", "U", "V", "W", "X", "Y", "Z"}
Digits == {"0", "1", "2", "3", "4", "5", "6", "7", "8", "9"}

\* ^[a-z0-9]([a-z0-9.\-]*[a-z0-9])?$
nameRe(x) ==
    /\ x # <<>>
    /\ x[1] \in Lower \cup Digits /\ x[Len(x)] \in Lower \cup Digits
    /\ \A i \in 1..Len(x) : x[i] \in Lower \cup Digits \cup {".", "-"}

\* ^[a-z0-9]([-a-z0-9]*[a-z0-9])?$
namespaceRe(x) ==
    /\ x # <<>>
    /\ x[1] \in Lower \cup Digits /\ x[Len(x)] \in Lower \cup Digits
    /\ \A i \in 1..Len(x) : x[i] \in Lower \cup Digits \cup {"-"}

\* ^[-._a-zA-Z0-9]+$
dataKeyRe(x) ==
    /\ x # <<>>
    /\ \A i \in 1..Len(x) : x[i] \in Lower \cup Upper \cup Digits \cup {"-", ".", "_"}

\* Issue{Severity, Message}; a message is its text and the values printed in it.
Issue(severity, message) == [Severity |-> severity, Message |-> message]

MaxNameLen == 253
MaxNamespaceLen == 63

checkName(s) ==
    IF s.name = <<>>
    THEN << Issue("error", <<"name must not be empty">>) >>
    ELSE IF Len(s.name) > MaxNameLen
    THEN << Issue("error", <<"name exceeds 253 characters", s.name>>) >>
    ELSE IF ~nameRe(s.name)
    THEN << Issue("error", <<"name is not a valid DNS subdomain", s.name>>) >>
    ELSE <<>>

checkNamespace(s) ==
    IF s.namespace = <<>>
    THEN << Issue("error", <<"namespace must not be empty">>) >>
    ELSE IF Len(s.namespace) > MaxNamespaceLen
    THEN << Issue("error", <<"namespace exceeds 63 characters", s.namespace>>) >>
    ELSE IF ~namespaceRe(s.namespace)
    THEN << Issue("error", <<"namespace is not a valid DNS label", s.namespace>>) >>
    ELSE <<>>

\* The loop "for k := range s.Data" over the keys in the order the map
\* iteration yields them.
RECURSIVE invalidKeys(_)
invalidKeys(order) ==
    IF order = <<>> THEN <<>>
    ELSE (IF dataKeyRe(Head(order)) THEN <<>>
          ELSE << Issue("error", <<"data key contains invalid characters", Head(order)>>) >>)
         \o invalidKeys(Tail(order))

checkDataKeys(s, order) ==
    (IF DOMAIN s.data = {} THEN << Issue("warning", <<"secret has no data keys">>) >>
     ELSE <<>>)
    \o invalidKeys(order)

required(s, key) ==
    IF key \notin DOMAIN s.data
    THEN << Issue("error", <<"type requires data key", s.type, key>>) >>
    ELSE <<>>

recommended(s, key) ==
    IF key \notin DOMAIN s.data
    THEN << Issue("warning", <<"type typically requires data key", s.type, key>>) >>
    ELSE <<>>

\* The data keys the Secret types ask for.
TLSCrt == <<"t", "l", "s", ".", "c", "r", "t">>
TLSKey == <<"t", "l", "s", ".", "k", "e", "y">>
DockerConfigJsonKey == <<".", "d", "o", "c", "k", "e", "r", "c", "o", "n", "f", "i", "g", "j", "s", "o", "n">>
Username == <<"u", "s", "e", "r", "n", "a", "m", "e">>
Password == <<"p", "a", "s", "s", "w", "o", "r", "d">>
SSHPrivateKey == <<"s", "s", "h", "-", "p", "r", "i", "v", "a", "t", "e", "k", "e", "y">>
Token == <<"t", "o", "k", "e", "n">>

\* A type check that asks a TLS secret for tls.crt only.
checkTypeRequirements_crtOnly(s) ==
    CASE s.type = "kubernetes.io/tls" -> required(s, TLSCrt)
      [] s.type = "kubernetes.io/dockerconfigjson" -> required(s, DockerConfigJsonKey)
      [] s.type = "kubernetes.io/basic-auth" ->
            recommended(s, Username) \o recommended(s, Password)
      [] s.type = "kubernetes.io/ssh-auth" -> required(s, SSHPrivateKey)
      [] s.type = "kubernetes.io/service-account-token" -> required(s, Token)
      [] OTHER -> <<>>

checkTypeRequirements(s) ==
    CASE s.type = "kubernetes.io/tls" -> required(s, TLSCrt) \o required(s, TLSKey)
      [] s.type = "kubernetes.io/dockerconfigjson" -> required(s, DockerConfigJsonKey)
      [] s.type = "kubernetes.io/basic-auth" ->
            recommended(s, Username) \o recommended(s, Password)
      [] s.type = "kubernetes.io/ssh-auth" -> required(s, SSHPrivateKey)
      [] s.type = "kubernetes.io/service-account-token" -> required(s, Token)
      [] OTHER -> <<>>

\* A Secret that returns the findings of the first check that has any.
Secret_firstFailing(s, order) ==
    IF checkName(s) # <<>> THEN checkName(s)
    ELSE IF checkNamespace(s) # <<>> THEN checkNamespace(s)
    ELSE checkDataKeys(s, order) \o checkTypeRequirements(s)

\* validate.Secret: the four checks, appended in this order.
Secret(s, order) ==
    checkName(s) \o checkNamespace(s) \o checkDataKeys(s, order)
        \o checkTypeRequirements(s)

\* The manifests handed to validate.Secret.
Repeat(c, n) == [i \in 1..n |-> c]

CheckedNames ==
    {<<>>, <<"a", "p", "p">>, <<"x", ".", "y", "-", "z">>, <<"U", "P">>, <<"-", "a">>,
     Repeat("a", MaxNameLen), Repeat("a", MaxNameLen + 1), Repeat("A", MaxNameLen + 1)}

CheckedNamespaces ==
    {<<>>, <<"n", "s">>, <<"a", ".", "b">>, Repeat("a", MaxNamespaceLen),
     Repeat("a", MaxNamespaceLen + 1), Repeat("_", MaxNamespaceLen + 1)}

CheckedTypes ==
    {"Opaque", "kubernetes.io/tls", "kubernetes.io/dockerconfigjson",
     "kubernetes.io/basic-auth", "kubernetes.io/ssh-auth",
     "kubernetes.io/service-account-token", "kubernetes.io/dockercfg", ""}

CheckedKeys ==
    {TLSCrt, TLSKey, DockerConfigJsonKey, Username, Password, SSHPrivateKey, Token,
     <<"a", "/", "b">>, <<"k", "!">>}

\* The orders in which a map iteration may yield the keys of S.
Orders(S) ==
    {f \in [1..Cardinality(S) -> S] : \A i, j \in DOMAIN f : f[i] = f[j] => i = j}

\* issues := validate.Secret(s)
Validate ==
    /\ checked = <<>>
    /\ \E n \in CheckedNames, ns \in CheckedNamespaces, t \in CheckedTypes,
          K \in {S \in SUBSET CheckedKeys : Cardinality(S) <= MaxKeys} :
        \E order \in Orders(K) :
            /\ checked' = << [NewSecret(n, ns) EXCEPT !.type = t,
                                                     !.data = [k \in K |-> <<"v">>]] >>
            /\ issues' = Secret(checked'[1], order)
    /\ UNCHANGED <<procVars, entries, elOp, elPrevOp, sliceVars, stderr, exit>>

SpecValidate == InitEntry /\ [][Validate]_vars

\* Which check a finding comes from, by its message.
IsNameIssue(i) ==
    i.Message[1] \in {"name must not be empty", "name exceeds 253 characters",
                      "name is not a valid DNS subdomain"}
IsNamespaceIssue(i) ==
    i.Message[1] \in {"namespace must not be empty", "namespace exceeds 63 characters",
                      "namespace is not a valid DNS label"}
IsDataKeyIssue(i) ==
    i.Message[1] \in {"secret has no data keys", "data key contains invalid characters"}
IsTypeIssue(i) ==
    i.Message[1] \in {"type requires data key", "type typically requires data key"}
IsError(i) == i.Severity = "error"

CheckOf(i) ==
    IF IsNameIssue(i) THEN 1 ELSE IF IsNamespaceIssue(i) THEN 2
    ELSE IF IsDataKeyIssue(i) THEN 3 ELSE 4

\* What the first rule a name breaks says: empty, too long, wrong shape.
NameFinding(x) ==
    IF x = <<>> THEN <<"name must not be empty">>
    ELSE IF Len(x) > MaxNameLen THEN <<"name exceeds 253 characters", x>>
    ELSE <<"name is not a valid DNS subdomain", x>>

NamespaceFinding(x) ==
    IF x = <<>> THEN <<"namespace must not be empty">>
    ELSE IF Len(x) > MaxNamespaceLen THEN <<"namespace exceeds 63 characters", x>>
    ELSE <<"namespace is not a valid DNS label", x>>

\* The findings fs hold exactly the finding of a broken rule, or none.
OneIfBroken(fs, fine, finding) ==
    IF fine THEN fs = <<>> ELSE fs = << Issue("error", finding) >>

\* C19: the findings of validate.Secret come in the order name, namespace,
\* data keys, type requirements; a name (or namespace) that breaks a rule
\* gives exactly one finding, that of the first rule it breaks among empty,
\* too long, wrong shape; and whatever the name and namespace checks find,
\* the data-key check still gives its warning for an empty mapping and one
\* error per invalid key, and the type check gives what it gives on its own.
C19_AllChecksInOrder ==
    checked # <<>> =>
        /\ \A i, j \in DOMAIN issues :
               i < j => CheckOf(issues[i]) <= CheckOf(issues[j])
        /\ OneIfBroken(SelectSeq(issues, IsNameIssue),
                       Len(checked[1].name) \in 1..MaxNameLen /\ nameRe(checked[1].name),
                       NameFinding(checked[1].name))
        /\ OneIfBroken(SelectSeq(issues, IsNamespaceIssue),
                       Len(checked[1].namespace) \in 1..MaxNamespaceLen
                           /\ namespaceRe(checked[1].namespace),
                       NamespaceFinding(checked[1].namespace))
        /\ Len(SelectSeq(issues, IsDataKeyIssue)) =
               (IF DOMAIN checked[1].data = {} THEN 1 ELSE 0)
               + Cardinality({k \in DOMAIN checked[1].data : ~dataKeyRe(k)})
        /\ SelectSeq(issues, IsTypeIssue) = checkTypeRequirements(checked[1])

\* A name that is too long and of the wrong shape, an empty namespace, an
\* invalid data key and a missing required key: four findings, in order.
C19_Witness ==
    /\ checked # <<>>
    /\ checked[1].name = Repeat("A", MaxNameLen + 1)
    /\ checked[1].namespace = <<>>
    /\ checked[1].type = "kubernetes.io/ssh-auth"
    /\ DOMAIN checked[1].data = {<<"k", "!">>}
    /\ Len(issues) = 4
    /\ issues[1].Message[1] = "name exceeds 253 characters"
    /\ IsTypeIssue(issues[4])

\* The keys a type requires, and those it recommends.
RequiredKeys(type) ==
    CASE type = "kubernetes.io/tls" -> {TLSCrt, TLSKey}
      [] type = "kubernetes.io/dockerconfigjson" -> {DockerConfigJsonKey}
      [] type = "kubernetes.io/ssh-auth" -> {SSHPrivateKey}
      [] type = "kubernetes.io/service-account-token" -> {Token}
      [] OTHER -> {}

RecommendedKeys(type) ==
    IF type = "kubernetes.io/basic-auth" THEN {Username, Password} ELSE {}

\* How many of the findings fs are of the given severity and name key k.
Naming(fs, severity, k) ==
    Cardinality({i \in DOMAIN fs : fs[i].Severity = severity /\ fs[i].Message[3] = k})

\* C20: the type check gives exactly one error per absent required key,
\* exactly one warning and no error per absent recommended key, and nothing
\* else (nothing at all for Opaque and for unknown types); a TLS manifest
\* with valid name and namespace and no data has exactly two errors among
\* its findings, one naming tls.crt and one naming tls.key.
C20_TypeFindings ==
    checked # <<>> =>
        /\ \A k \in RequiredKeys(checked[1].type) \ DOMAIN checked[1].data :
               Naming(SelectSeq(issues, IsTypeIssue), "error", k) = 1
        /\ \A k \in RecommendedKeys(checked[1].type) \ DOMAIN checked[1].data :
               /\ Naming(SelectSeq(issues, IsTypeIssue), "warning", k) = 1
               /\ Naming(SelectSeq(issues, IsTypeIssue), "error", k) = 0
        /\ Len(SelectSeq(issues, IsTypeIssue)) =
               Cardinality((RequiredKeys(checked[1].type)
                            \cup RecommendedKeys(checked[1].type))
                           \ DOMAIN checked[1].data)
        /\ (/\ checked[1].type = "kubernetes.io/tls"
            /\ checked[1].name = <<"a", "p", "p">>
            /\ checked[1].namespace = <<"n", "s">>
            /\ DOMAIN checked[1].data = {})
           => /\ Len(SelectSeq(issues, IsError)) = 2
              /\ {SelectSeq(issues, IsError)[i].Message[3] : i \in 1..2} = {TLSCrt, TLSKey}

\* A TLS manifest with valid name and namespace and no data was validated.
C20_Witness ==
    /\ checked # <<>>
    /\ checked[1].type = "kubernetes.io/tls"
    /\ checked[1].name = <<"a", "p", "p">> /\ checked[1].namespace = <<"n", "s">>
    /\ DOMAIN checked[1].data = {}
    /\ Len(issues) = 3

\* ------------------------------------------------------------------------
\* cmd: the validate command
\* ------------------------------------------------------------------------

\* fmt.Fprintf(os.Stderr, "error: %s\n" or "warning: %s\n", issue.Message),
\* coloured unless NO_COLOR is set.
FindingLine(issue, useColor) ==
    [label |-> IF issue.Severity = "error" THEN "error:" ELSE "warning:",
     text |-> issue.Message, color |-> useColor]

\* The loop of runValidate over the findings.
FindingLines(fs, useColor) == [i \in DOMAIN fs |-> FindingLine(fs[i], useColor)]

\* countErrors
countErrors(fs) == Cardinality({i \in DOMAIN fs : fs[i].Severity = "error"})

\* The line after the findings; a failure is reported by the returned error.
SummaryLine(fs) ==
    IF countErrors(fs) > 0 THEN <<>>
    ELSE IF Len(fs) > 0
    THEN << [label |-> "validation passed with warning(s)", text |-> <<Len(fs)>>,
             color |-> FALSE] >>
    ELSE << [label |-> "validation passed", text |-> <<>>, color |-> FALSE] >>

\* A runValidate that fails on any finding, as its help text says.
ExitStatus_anyFinding(fs) == IF Len(fs) > 0 THEN 1 ELSE 0

\* runValidate returns an error (exit status 1) when hasErrors, else nil.
ExitStatus(fs) == IF \E i \in DOMAIN fs : fs[i].Severity = "error" THEN 1 ELSE 0

\* The files handed to validate --input.
ValidatedFiles ==
    {NoFile, TextOf(<<"pem">>)} \cup
    {ManifestOf([NewSecret(n, ns) EXCEPT !.type = t, !.data = [k \in K |-> <<"v">>]]) :
        n \in {<<>>, <<"a", "p", "p">>, <<"U", "P">>},
        ns \in {<<>>, <<"n", "s">>},
        t \in CheckedTypes,
        K \in {S \in SUBSET CheckedKeys : Cardinality(S) <= MaxKeys}}

\* runValidate with the findings fs of the loaded manifest.
Reported(fs, useColor) ==
    /\ issues' = fs
    /\ stderr' = FindingLines(fs, useColor) \o SummaryLine(fs)
    /\ exit' = ExitStatus(fs)

\* k8s-secret-manifest validate --input f
RunValidate ==
    /\ exit = -1
    /\ \E f \in ValidatedFiles, useColor \in BOOLEAN :
        IF f.kind # "secret"
        THEN /\ exit' = 1
             /\ UNCHANGED <<checked, issues, stderr>>
        ELSE /\ checked' = << f.m >>
             /\ \E order \in Orders(DOMAIN f.m.data) :
                    Reported(Secret(f.m, order), useColor)
    /\ UNCHANGED <<procVars, entries, elOp, elPrevOp, sliceVars>>

SpecValidateCmd == InitEntry /\ [][RunValidate]_vars

maxRotateLength == 4096

\* rotate --input s --key ... --length n --charset cs
RotateMenu ==
    { [Rotate(<<"A">>) EXCEPT !.rkeys = ks, !.length = n, !.charset = cs] :
        ks \in { << <<"A">> >>, << <<"B">> >>, << <<"A">>, <<"B">> >> },
        n \in {-1, 0, 1, 2, maxRotateLength, maxRotateLength + 1},
        cs \in {"alphanumeric", "hex", "base64url", "octal"} }

\* One process runs one rotate on a secret with the keys A and C, or A, B, C.
InitRotate ==
    \E d \in { MapSet(MapSet(EmptyMap, <<"A">>, <<"0">>), <<"C">>, <<"1">>),
               MapSet(MapSet(MapSet(EmptyMap, <<"A">>, <<"0">>), <<"B">>, <<"0">>),
                      <<"C">>, <<"1">>) } :
        InitProcs([p \in Procs |-> IF p = 1 THEN RotateMenu ELSE {}],
                  [p \in Procs |-> IF p = 1 THEN 1 ELSE 0], FilesWith(SecretWith(d)))

SpecRotate == InitRotate /\ [][NextPlain]_vars

\* Whether p has run a rotate to its end.
Rotated(p) == cmd[p].name = "rotate" /\ pc[p] = "idle" /\ res[p] # ""

\* Whether the rotate of p has no fault but, possibly, its length: the
\* charset is known and every named key is in the data.
OnlyLengthInQuestion(p) ==
    /\ resolveCharset(cmd[p].charset)
    /\ \A i \in DOMAIN cmd[p].rkeys : cmd[p].rkeys[i] \in DOMAIN snap[p][SecretFile].m.data

\* C22: a rotate with --length above 4096 fails and leaves every file as it
\* was, with an error saying that the length exceeds the maximum when
\* nothing else is wrong; a length from 1 to 4096 is accepted.
C22_LengthCap ==
    \A p \in Procs :
        Rotated(p) =>
            IF cmd[p].length > maxRotateLength
            THEN /\ res[p] # "ok" /\ files = snap[p]
                 /\ OnlyLengthInQuestion(p) => res[p] = "exceeds maximum"
            ELSE (cmd[p].length >= 1 /\ OnlyLengthInQuestion(p)) => res[p] = "ok"

\* C29: a rotate that succeeds leaves under each named key a value of
\* exactly --length characters of the selected charset and every other data
\* key as it was; a rotate naming an absent key, or with a length of zero or
\* less, fails.
C29_RotateValues ==
    \A p \in Procs :
        Rotated(p) =>
            IF res[p] = "ok"
            THEN /\ files[SecretFile].kind = "secret"
                 /\ DOMAIN files[SecretFile].m.data = DOMAIN snap[p][SecretFile].m.data
                 /\ \A k \in DOMAIN files[SecretFile].m.data :
                        IF \E i \in DOMAIN cmd[p].rkeys : cmd[p].rkeys[i] = k
                        THEN /\ Len(files[SecretFile].m.data[k]) = cmd[p].length
                             /\ \A j \in 1..cmd[p].length :
                                    files[SecretFile].m.data[k][j] \in Charset(cmd[p].charset)
                        ELSE files[SecretFile].m.data[k] = snap[p][SecretFile].m.data[k]
                 /\ cmd[p].length > 0
                 /\ \A i \in DOMAIN cmd[p].rkeys :
                        cmd[p].rkeys[i] \in DOMAIN snap[p][SecretFile].m.data
            ELSE files = snap[p]

\* Two keys were rotated to values of two hex characters; C kept its value.
C29_Witness ==
    /\ Rotated(1) /\ res[1] = "ok"
    /\ cmd[1].length = 2 /\ cmd[1].charset = "hex" /\ Len(cmd[1].rkeys) = 2
    /\ files[SecretFile].m.data[<<"A">>] = <<"0", "f">>
    /\ files[SecretFile].m.data[<<"B">>] = <<"f", "f">>
    /\ files[SecretFile].m.data[<<"C">>] = <<"1">>

\* ------------------------------------------------------------------------
\* cmd: data keys given by the user
\* ------------------------------------------------------------------------

\* from-env --name app --env-file v --output t
FromEnv == [BaseCmd EXCEPT !.name = "from-env", !.newName = "app",
                           !.envFile = EnvFile, !.output = OtherFile]

\* Command lines that give data keys: valid ones, "!" and the empty key.
KeyMenu ==
    { [Gen(OtherFile) EXCEPT !.sets = << kv >>] :
          kv \in {<<"A", "=", "1">>, <<"!", "=", "1">>, <<"=", "1">>} }
    \cup { [Gen(OtherFile) EXCEPT !.setFiles = << kf >>] :
          kf \in {<<"A", "=", "c">>, <<"!", "=", "c">>, <<"=", "c">>} }
    \cup { [Gen(OtherFile) EXCEPT !.entriesKey = ek, !.entriesVal = ev,
                                  !.entryFlags = << <<"a", ":", "x">> >>] :
          ek \in {<<"U">>, <<"!">>}, ev \in {<<"P">>, <<"!">>} }
    \cup { [UpdA EXCEPT !.sets = << kv >>] :
          kv \in {<<"A", "=", "1">>, <<"!", "=", "1">>, <<"=", "1">>} }
    \cup { [UpdA EXCEPT !.setFiles = << kf >>] :
          kf \in {<<"A", "=", "c">>, <<"!", "=", "c">>, <<"=", "c">>} }
    \cup { [FromEnv EXCEPT !.sets = s] :
          s \in {<<>>, << <<"B", "=", "1">> >>, << <<"!", "=", "1">> >>, << <<"=", "1">> >>} }
    \cup { Edit(<< l >>) : l \in {<<"B", "=", "9">>, <<"!", "=", "9">>, <<"=", "9">>} }

\* The .env files: a valid key, an invalid one, an empty one.
EnvTexts ==
    { <<"A", "=", "1", "\n">>, <<"A", " ", "!", "=", "1", "\n">>, <<"=", "1", "\n">> }

\* One process runs up to MaxInvocations of these commands.
InitKeys ==
    \E text \in EnvTexts :
        InitProcs([p \in Procs |-> IF p = 1 THEN KeyMenu ELSE {}],
                  [p \in Procs |-> IF p = 1 THEN MaxInvocations ELSE 0],
                  [FilesWith(SecretWith(MapSet(EmptyMap, <<"A">>, <<"0">>)))
                      EXCEPT ![EnvFile] = TextOf(text)])

SpecKeys == InitKeys /\ [][Next]_vars

\* C23: no manifest written by generate, update, from-env or edit holds a
\* data key that is empty or has a character outside [-._a-zA-Z0-9].
C23_NoInvalidKeyStored ==
    \A x \in Paths :
        files[x].kind = "secret" =>
            \A k \in DOMAIN files[x].m.data : ValidateDataKey(k)


\* ------------------------------------------------------------------------
\* update: what it leaves alone
\* ------------------------------------------------------------------------

\* A manifest with data, labels, annotations, a type and the immutable flag.
FrameSecrets ==
    { [NewSecret("app", "prod") EXCEPT
          !.data = MapSet(MapSet(EmptyMap, <<"A">>, <<"0">>), <<"P">>, <<"x">>),
          !.labels = MapSet(MapSet(EmptyMap, <<"A">>, <<"0">>), <<"B">>, <<"0">>),
          !.annotations = MapSet(EmptyMap, <<"A">>, <<"0">>),
          !.type = "kubernetes.io/tls", !.immutable = TRUE],
      SecretWith(MapSet(EmptyMap, <<"A">>, <<"0">>)) }

\* update command lines naming data keys, labels and annotations.
FrameMenu ==
    LET U == [BaseCmd EXCEPT !.name = "update", !.input = SecretFile]
    IN  { [U EXCEPT !.sets = << <<"A", "=", "1">> >>],
          [U EXCEPT !.sets = << <<"B", "=", "2">> >>, !.deleteKeys = << <<"A">> >>],
          [U EXCEPT !.setFiles = << <<"U", "=", "c">> >>],
          [U EXCEPT !.deleteKeys = << <<"P">> >>],
          [U EXCEPT !.labels = << <<"A", "=", "1">> >>],
          [U EXCEPT !.annotations = << <<"B", "=", "2">> >>],
          [U EXCEPT !.sets = << <<"A", "=", "1">> >>, !.labels = << <<"P", "=", "1">> >>,
                    !.annotations = << <<"A", "=", "2">> >>, !.output = OtherFile] }

\* One process runs updates of the secret file one after another.
InitFrame ==
    \E s \in FrameSecrets :
        InitProcs([p \in Procs |-> IF p = 1 THEN FrameMenu ELSE {}],
                  [p \in Procs |-> IF p = 1 THEN MaxInvocations ELSE 0],
                  FilesWith(s))

SpecFrame == InitFrame /\ [][Next]_vars

\* The keys of a list of key=value flags.
FlagKeys(pairs) == {splitKeyValue(pairs[i]).k : i \in DOMAIN pairs}

\* The data keys an update names with --set, --set-file and --delete-key.
NamedData(c) ==
    FlagKeys(c.sets) \cup FlagKeys(c.setFiles) \cup {c.deleteKeys[i] : i \in DOMAIN c.deleteKeys}

\* Whether the maps a and b agree on every key outside named.
SameOutside(a, b, named) ==
    /\ DOMAIN a \ named = DOMAIN b \ named
    /\ \A k \in DOMAIN a \ named : a[k] = b[k]

\* Whether p has returned from a successful update.
Updated(p) == pc[p] = "idle" /\ res[p] = "ok" /\ cmd[p].name = "update"

\* The manifest of --input when Updated(p) was started, and the one it wrote.
BeforeUpdate(p) == snap[p][cmd[p].input].m
AfterUpdate(p) == files[OutputPath(cmd[p])].m

\* C24: after each update of a sequence that has returned successfully, the
\* manifest written agrees with the one read on every data key the flags
\* --set, --set-file and --delete-key do not name, on every label and
\* annotation --label and --annotation do not name, and on name, namespace,
\* type and the immutable flag.
C24_UpdateFrame ==
    \A p \in Procs :
        Updated(p) =>
            /\ SameOutside(BeforeUpdate(p).data, AfterUpdate(p).data, NamedData(cmd[p]))
            /\ SameOutside(BeforeUpdate(p).labels, AfterUpdate(p).labels,
                           FlagKeys(cmd[p].labels))
            /\ SameOutside(BeforeUpdate(p).annotations, AfterUpdate(p).annotations,
                           FlagKeys(cmd[p].annotations))
            /\ AfterUpdate(p).name = BeforeUpdate(p).name
            /\ AfterUpdate(p).namespace = BeforeUpdate(p).namespace
            /\ AfterUpdate(p).type = BeforeUpdate(p).type
            /\ AfterUpdate(p).immutable = BeforeUpdate(p).immutable

\* The second update of a sequence set B and deleted A; the key P, the
\* labels and the type it did not name are as the first update left them.
C24_Witness ==
    \E p \in Procs :
        /\ Updated(p) /\ todo[p] = 0
        /\ cmd[p].deleteKeys = << <<"A">> >> /\ cmd[p].sets # <<>>
        /\ <<"P">> \in DOMAIN AfterUpdate(p).data
        /\ <<"A">> \notin DOMAIN AfterUpdate(p).data
        /\ <<"B">> \in DOMAIN AfterUpdate(p).data
        /\ AfterUpdate(p).labels # EmptyMap
        /\ AfterUpdate(p).type = "kubernetes.io/tls"
        /\ BeforeUpdate(p) # SecretWith(MapSet(EmptyMap, <<"A">>, <<"0">>))

\* ------------------------------------------------------------------------
\* export-env and from-env one after the other
\* ------------------------------------------------------------------------

\* export-env --input s --output v
ExportEnv == [BaseCmd EXCEPT !.name = "export-env", !.input = SecretFile,
                             !.output = EnvFile]

\* The values the exported manifest holds under its keys.
EnvValues ==
    { <<>>, <<"1">>, <<"a", " ", "b">>, <<"a", "=", "b">>, <<"#">>,
      <<"'", "a", "'">>, <<"a", "\"", "b">>, <<"a", "\\", "b">>,
      <<"a", "\n", "b">>, <<"\f">> }

\* Manifests with one or two valid data keys.
EnvSecrets ==
    { SecretWith(MapSet(EmptyMap, <<"A">>, v)) : v \in EnvValues }
    \cup { SecretWith(MapSet(MapSet(EmptyMap, <<"B">>, <<"2">>), <<"A">>, v)) :
              v \in EnvValues }

\* One process runs export-env and from-env, in any order.
InitEnv ==
    \E s \in EnvSecrets :
        InitProcs([p \in Procs |-> IF p = 1 THEN {ExportEnv, FromEnv} ELSE {}],
                  [p \in Procs |-> IF p = 1 THEN MaxInvocations ELSE 0],
                  FilesWith(s))

SpecEnv == InitEnv /\ [][NextPlain]_vars

\* Whether p has imported, with success, the file export-env wrote for the
\* manifest of the secret file.
Reimported(p) ==
    /\ pc[p] = "idle" /\ res[p] = "ok" /\ cmd[p].name = "from-env"
    /\ files[SecretFile].kind = "secret"
    /\ files[cmd[p].envFile] = Written(ExportEnv, files[SecretFile].m)

\* C25: a manifest with valid data keys that is exported with export-env and
\* imported again with from-env comes back with the same data keys and, for
\* each key, the same value.
C25_ExportImportInverse ==
    \A p \in Procs :
        Reimported(p) =>
            /\ files[OutputPath(cmd[p])].kind = "secret"
            /\ files[OutputPath(cmd[p])].m.data = files[SecretFile].m.data

\* ------------------------------------------------------------------------
\* add-entry, add-entry, remove-entry back to back
\* ------------------------------------------------------------------------

\* What the three invocations run: the first adds an entry, the second adds
\* another, the third removes one by key.
BackToBackMenu(p) ==
    CASE p = 1 -> { AddC,
                    AddEntry(<<"c">>, <<" ", "z">>),
                    AddEntry(<<"c">>, <<>>),
                    AddEntry(<<"c", ";", "e">>, <<"z", ";", "w">>),
                    AddEntry(<<"a">>, <<"x">>) }
      [] p = 2 -> { AddD, AddEntry(<<"c">>, <<"q">>) }
      [] p = 3 -> { RemEntryKey(<<"c">>), RemEntryKey(<<"d">>), RemEntryKey(<<"a">>),
                    RemEntryKey(<<"c", ";", "e">>) }
      [] OTHER -> {}

\* The secret file holds no list, or the list a;b / x;y.
InitBackToBack ==
    \E s \in { SecretWith(EmptyMap),
               SecretWith(MapSet(MapSet(EmptyMap, <<"U">>, <<"a", ";", "b">>),
                                 <<"P">>, <<"x", ";", "y">>)) } :
        InitProcs([p \in Procs |-> BackToBackMenu(p)],
                  [p \in Procs |-> IF p <= 3 THEN 1 ELSE 0], FilesWith(s))

\* An invocation runs once the ones before it have returned.
InTurn(p) == \A q \in Procs : q < p => pc[q] = "idle" /\ todo[q] = 0

InvokeInTurn(p) == InTurn(p) /\ Invoke(p)

NextBackToBack ==
    \E p \in Procs : InvokeInTurn(p) \/ Read(p) \/ Apply(p) \/ Write(p)

SpecBackToBack == InitBackToBack /\ [][NextBackToBack]_vars

\* The paired list of the secret file in the directory fs.
ListIn(fs) == loadEntries(fs[SecretFile].m, <<"U">>, <<"P">>, <<";">>)

\* Whether the three invocations have returned, each with success.
AllThreeDone == \A p \in 1..3 : pc[p] = "idle" /\ todo[p] = 0 /\ res[p] = "ok"

\* Whether the list read by the third invocation is the list read by the
\* first with the entries of the two add-entry calls after it, in order.
BothAdded ==
    /\ ListIn(snap[3]).ok
    /\ ListIn(snap[3]).entries =
           ListIn(snap[1]).entries
               \o <<Entry(cmd[1].key, cmd[1].value), Entry(cmd[2].key, cmd[2].value)>>

\* Whether the list left by the third invocation is the list it read without
\* one entry, which has the key it names.
OneRemoved ==
    /\ ListIn(files).ok
    /\ \E i \in 1..Len(ListIn(snap[3]).entries) :
           /\ ListIn(snap[3]).entries[i].Key = cmd[3].key
           /\ WithoutAt(ListIn(snap[3]).entries, ListIn(files).entries, i)

\* C26: after add-entry of A, add-entry of B and remove-entry by key have run
\* back to back on one file, the list before the removal is the first list
\* followed by A and B, each key with its own value, and the removal took out
\* the entry of the named key and nothing else.
C26_BackToBackCompose == AllThreeDone => BothAdded /\ OneRemoved

\* ------------------------------------------------------------------------
\* withExclusiveLock with the empty path
\* ------------------------------------------------------------------------

\* update --input "": the output path defaults to the input path, the empty
\* path, which is what withExclusiveLock is given.
UpdStdout == [BaseCmd EXCEPT !.name = "update"]

\* update --input "" --set A=1
UpdStdoutSet == [UpdStdout EXCEPT !.sets = << <<"A", "=", "1">> >>]

\* One process runs updates with the empty path, another an update of the
\* secret file or one with the empty path.
InitStdout ==
    \E s \in InitialSecrets :
        InitProcs([p \in Procs |-> IF p = 1 THEN {UpdStdout, UpdStdoutSet}
                                   ELSE IF p = 2 THEN {UpdA, UpdStdout} ELSE {}],
                  [p \in Procs |-> IF p = 1 THEN MaxInvocations
                                   ELSE IF p = 2 THEN 1 ELSE 0],
                  FilesWith(s))

SpecStdout == InitStdout /\ [][Next]_vars

\* Whether the last invocation of p called withExclusiveLock("", fn).
Direct(p) == UsesLock(cmd[p]) /\ OutputPath(cmd[p]) = Stdout

\* How far an invocation has come: the call of withExclusiveLock, the three
\* stages of fn, the return.
Stage(at) ==
    CASE at = "open" -> 1 [] at = "read" -> 2 [] at = "apply" -> 3
      [] at = "write" -> 4 [] at = "idle" -> 5 [] OTHER -> 0

\* C27: an invocation of withExclusiveLock with the empty path never has a
\* marker open, never holds or waits for a lock and creates no file; it
\* leaves the marker files as they are, goes from the call straight into fn,
\* through fn once from its first stage on without going back, and returns
\* with the result of fn without a release stage.
C27_NoLockOnEmptyPath ==
    /\ [](\A p \in Procs :
            Direct(p) => /\ fd[p] = 0 /\ ~holds[p] /\ touched[p] = {}
                         /\ Stage(pc[p]) > 0)
    /\ [][\A p \in Procs :
            (Direct(p) /\ cmd'[p] = cmd[p] /\ pc[p] # "idle" /\ pc'[p] # pc[p]) =>
                /\ Stage(pc'[p]) > Stage(pc[p])
                /\ pc[p] = "open" => pc'[p] = "read" /\ lockFile' = lockFile
                /\ pc'[p] = "idle" => res'[p] \notin {"", "running"}]_vars

\* An invocation with the empty path has run fn, which failed to load the
\* manifest, and has returned that error; no marker exists and nothing was
\* created, while another process holds the lock of the secret file.
C27_Witness ==
    \E p, q \in Procs :
        /\ Direct(p) /\ pc[p] = "idle" /\ res[p] = "load secret"
        /\ opened[p] = {Stdout} /\ touched[p] = {} /\ todo[p] = 0
        /\ holds[q] /\ OutputPath(cmd[q]) = SecretFile
        /\ \A x \in Paths \ {SecretFile} : lockFile[x] = 0

\* ------------------------------------------------------------------------
\* internal/entrylist: entries with an empty value
\* ------------------------------------------------------------------------

\* entries, err = entrylist.Add(entries, k, v) with a value that may be empty.
EAddValue ==
    /\ elOp.op \notin {"none", "Serialize"}
    /\ Len(entries) < MaxEntries
    /\ \E k \in EKeys \cup {<<"c">>}, v \in {<<>>, <<"z">>} :
        Returned("Add", Add(entries, k, v), k, v, 0, elOp.sep, <<>>, <<>>)

\* What the caller holds after parsing back r from the strings Serialize
\* returned.
ParsedBack(r) ==
    /\ entries' = IF r.ok THEN r.entries ELSE entries
    /\ elOp' = [NoOp EXCEPT !.op = "Parse", !.ok = r.ok, !.err = r.err,
                            !.sep = elOp.sep, !.before = entries,
                            !.a = r.a, !.b = r.b]
    /\ elPrevOp' = elOp
    /\ UNCHANGED <<procVars, sliceVars, validateVars>>

\* entries, err = entrylist.Parse(keysVal, valsVal, sep) of the two strings
\* Serialize has just returned.
EParseBack ==
    /\ elOp.op = "Serialize"
    /\ ParsedBack(Parse(elOp.out[1], elOp.out[2], elOp.sep))

\* A caller parses a list, adds entries, serialises it and parses it back.
NextEmptyValue ==
    \/ EParse({<<"a">>, <<"b">>}, {<<"x">>, <<"y">>}, {<<";">>})
    \/ EAddValue \/ ESerialize \/ EParseBack

SpecEmptyValue == InitEntry /\ [][NextEmptyValue]_vars

\* The entries of es with a non-empty value, in their order.
WithValue(es) == SelectSeq(es, LAMBDA e : e.Value # <<>>)

\* Whether a list with an empty-valued entry was serialised and parsed back.
EmptyValueParsedBack ==
    /\ elOp.op = "Parse" /\ elPrevOp.op = "Serialize"
    /\ \E i \in 1..Len(elOp.before) : elOp.before[i].Value = <<>>

\* C28: parsing back the two strings Serialize made of a list with an
\* empty-valued entry succeeds and returns the entries with a non-empty
\* value, each with its own key, in their order.
C28_EmptyValueDropped ==
    EmptyValueParsedBack => elOp.ok /\ entries = WithValue(elOp.before)

\* ------------------------------------------------------------------------
\* Concurrent invocations under a fair lock
\* ------------------------------------------------------------------------

\* Three processes run one update of the secret file each, at the same time;
\* the unit of work of some fails.
InitFair ==
    InitProcs([p \in Procs |-> IF p = 1 THEN {UpdA} ELSE IF p = 2 THEN {UpdB}
                               ELSE IF p = 3 THEN {UpdNoEq} ELSE {}],
              [p \in Procs |-> IF p <= 3 THEN 1 ELSE 0],
              FilesWith(SecretWith(EmptyMap)))

\* The kernel grants the lock fairly: a process that could take the lock
\* again and again does take it.
SpecFair ==
    InitFair /\ [][Next]_vars
        /\ \A p \in Procs : Scheduled(p) /\ SF_vars(LockAcquire(p))

\* Whether p has returned from its invocation and holds nothing.
ReturnedFree(p) == pc[p] = "idle" /\ res[p] # "running" /\ fd[p] = 0 /\ ~holds[p]

\* C30: every invocation that has called withExclusiveLock runs its unit of
\* work under the lock, and every invocation under way returns, holding
\* nothing: none waits for ever, whatever the others do.
C30_EveryInvocationReturns ==
    /\ \A p \in Procs : (pc[p] = "open") ~> (holds[p] /\ pc[p] \in {"apply", "unlock"})
    /\ \A p \in Procs : (pc[p] # "idle") ~> ReturnedFree(p)

\* All three invocations have opened the marker and returned, holding
\* nothing; two succeeded and one returned its unit's error.
C30_Witness ==
    /\ \A p \in 1..3 : ReturnedFree(p) /\ todo[p] = 0 /\ SecretFile \in touched[p]
    /\ \E p, q, r \in 1..3 :
        /\ p # q /\ q # r /\ p # r
        /\ res[p] = "ok" /\ res[q] = "ok" /\ res[r] = "format"

====
